---- MODULE Spec2Model ----
(***************************************************************************)
(* Model of medinify's sentiment evaluation code:                          *)
(*   - metrics(), the confusion-matrix metrics of review_classifier.py,    *)
(*   - the rating labeler inside ReviewClassifier.preprocess / classify,   *)
(*   - the tp/fp/tn/fn metrics of CNNReviewClassifier.train / evaluate.    *)
(*                                                                         *)
(* Numbers.  metrics() divides numpy scalars (cells of the ndarray that    *)
(* sklearn's confusion_matrix returns, times 1.0): a zero denominator      *)
(* yields nan (0/0) or inf (x/0) with a RuntimeWarning and no exception.   *)
(* The CNN code divides Python ints/floats: a zero denominator raises      *)
(* ZeroDivisionError.  Floats are modelled as exact fractions n/d in       *)
(* lowest terms, with d = 0 for the two non-finite values; rounding of     *)
(* the binary representation is not modelled.                              *)
(***************************************************************************)
EXTENDS Integers, Sequences, FiniteSets, TLC

VARIABLES
    label_mode,          \* class-count mode the evaluated labels were made in
    actual_ratings,      \* metrics / batch_metrics argument: true labels
    predicted_ratings,   \* metrics / batch_metrics argument: predicted labels
    result,              \* outcome of the last metrics() call
    cnn_result,          \* outcome of the last CNN train-epoch / evaluate
    init_args,           \* thresholds passed to ReviewClassifier.__init__
    negative_threshold,  \* ReviewClassifier.negative_threshold
    positive_threshold,  \* ReviewClassifier.positive_threshold
    model,               \* ReviewClassifier.model
    vectorizer,          \* ReviewClassifier.vectorizer
    df,                  \* rows of the reviews CSV: [comment, rating]
    labeled,             \* outcome of the last preprocess / classify call
    classifier_type,     \* ReviewClassifier.classifier_type
    kfold,               \* frame of the evaluate_average_accuracy call
    ReviewDataset_meta,  \* the dictionary ReviewDataset.meta of the class
    datasets,            \* the ReviewDataset objects: their own attributes
    files,               \* the pickle files on disk
    now,                 \* what time() returns next
    last_call            \* the last ReviewDataset method called, what it did

vars == <<label_mode, actual_ratings, predicted_ratings, result, cnn_result,
          init_args, negative_threshold, positive_threshold, model, vectorizer,
          df, labeled, classifier_type, kfold,
          ReviewDataset_meta, datasets, files, now, last_call>>

metricsVars == <<label_mode, actual_ratings, predicted_ratings, result, cnn_result>>
labelerVars == <<init_args, negative_threshold, positive_threshold, model,
                 vectorizer, df, labeled>>
kfoldVars == <<classifier_type, kfold>>
datasetVars == <<ReviewDataset_meta, datasets, files, now, last_call>>
classifierVars == <<label_mode, actual_ratings, predicted_ratings, result,
                    cnn_result, init_args, negative_threshold,
                    positive_threshold, model, vectorizer, df, labeled,
                    classifier_type, kfold>>

----------------------------------------------------------------------------
(* Bounds *)

\* longest list of (actual, predicted) examples handed to an evaluation
MaxLen == 4
\* largest batch size of a CNN data loader
MaxBatch == 2
\* most rows in a reviews CSV
MaxRows == 2
\* most rows in a reviews CSV handed to cross-validation
MaxExamples == 4
\* largest number of folds asked for
MaxFolds == 3
\* the clock stops there: no call of time() returns more
MaxClock == 4
\* most drugs in the list of common drugs
MaxDrugs == 2
\* most epochs a network is trained for
MaxEpochs == 2

\* star ratings of a well-formed review record
MinRating == 1
MaxRating == 5

None == "None"

----------------------------------------------------------------------------
(* Floating point values as fractions *)

RECURSIVE GCD(_, _)
GCD(a, b) == IF b = 0 THEN a ELSE GCD(b, a % b)

NaN == [n |-> 0, d |-> 0]
Inf == [n |-> 1, d |-> 0]

\* the float n/d for n >= 0, d >= 0
Norm(n, d) ==
    IF d = 0 THEN (IF n = 0 THEN NaN ELSE Inf)
    ELSE LET g == GCD(n, d) IN [n |-> n \div g, d |-> d \div g]

\* x * 1.0
Float(x) == [n |-> x, d |-> 1]

Zero == Float(0)
One == Float(1)
Two == Float(2)

IsNaN(a) == a = NaN
IsFinite(a) == a.d # 0

FMul(a, b) == IF IsNaN(a) \/ IsNaN(b) THEN NaN ELSE Norm(a.n * b.n, a.d * b.d)

FAdd(a, b) ==
    IF IsNaN(a) \/ IsNaN(b) THEN NaN
    ELSE IF a = Inf \/ b = Inf THEN Inf
    ELSE Norm(a.n * b.d + b.n * a.d, a.d * b.d)

\* numpy true division: no exception on a zero divisor
FDiv(a, b) == IF IsNaN(a) \/ IsNaN(b) THEN NaN ELSE Norm(a.n * b.d, a.d * b.n)

\* a <= b for finite a, b
FLeq(a, b) == a.n * b.d <= b.n * a.d

----------------------------------------------------------------------------
(* sklearn.metrics.confusion_matrix as metrics() calls it (no labels=):    *)
(* the classes are the sorted distinct values of both lists, and cell      *)
(* [i][j] counts the examples of true class i predicted as class j.        *)

Range(s) == {s[k] : k \in 1..Len(s)}

unique_labels(actual, predicted) == Range(actual) \cup Range(predicted)

\* the i-th smallest label (i from 0)
LabelAt(S, i) == CHOOSE l \in S : Cardinality({x \in S : x < l}) = i

confusion_matrix(actual, predicted) ==
    LET S == unique_labels(actual, predicted)
        n == Cardinality(S)
        labels == [i \in 0..(n - 1) |-> LabelAt(S, i)]
    IN [i \in 0..(n - 1) |-> [j \in 0..(n - 1) |->
            Cardinality({k \in 1..Len(actual) :
                            actual[k] = labels[i] /\ predicted[k] = labels[j]})]]

Size(matrix) == Cardinality(DOMAIN matrix)

----------------------------------------------------------------------------
(* metrics(actual_ratings, predicted_ratings, num)                          *)

\* f1 as written for every class but one: 2 * ((p * r) / (p + r))
f1_score(precision, recall) ==
    FMul(Two, FDiv(FMul(precision, recall), FAdd(precision, recall)))

\* f1_2 of the 5-class branch, the one guarded against a zero sum
f1_score_guarded(precision, recall) ==
    IF FAdd(precision, recall) = Zero THEN Zero
    ELSE f1_score(precision, recall)

\* num == 2
cells_2(matrix) ==
    [tn |-> matrix[0][0], fp |-> matrix[0][1],
     fn |-> matrix[1][0], tp |-> matrix[1][1]]

accuracy_2(c) == FDiv(Float(c.tp + c.tn), Float(c.tp + c.tn + c.fp + c.fn))

\* precision_2 with the false negatives where the false positives belong
precision_2_rows(c) ==
    <<FDiv(Float(c.tp), Float(c.tp + c.fn)), FDiv(Float(c.tn), Float(c.tn + c.fp))>>

precision_2(c) ==
    <<FDiv(Float(c.tp), Float(c.tp + c.fp)), FDiv(Float(c.tn), Float(c.tn + c.fn))>>

recall_2(c) ==
    <<FDiv(Float(c.tp), Float(c.tp + c.fn)), FDiv(Float(c.tn), Float(c.tn + c.fp))>>

metrics_2(matrix) ==
    LET c == cells_2(matrix)
        accuracy == accuracy_2(c)
        precision == precision_2(c)
        recall == recall_2(c)
        f1_1 == f1_score(precision[1], recall[1])
        f1_2 == f1_score(precision[2], recall[2])
    IN <<accuracy, precision[1], recall[1], f1_1, precision[2], recall[2], f1_2>>

\* num == 3
cells_3(matrix) ==
    [tpPos |-> matrix[0][0], tpNeg |-> matrix[1][1], tpNeu |-> matrix[2][2],
     fBA |-> matrix[1][0], fBC |-> matrix[1][2], fAB |-> matrix[0][1],
     fCB |-> matrix[2][1], fCA |-> matrix[2][0], fAC |-> matrix[0][2]]

accuracy_3(c) ==
    FDiv(Float(c.tpPos + c.tpNeg + c.tpNeu),
         Float(c.tpPos + c.tpNeg + c.tpNeu
               + c.fBA + c.fBC + c.fAB + c.fCB + c.fCA + c.fAC))

precision_3(c) ==
    <<FDiv(Float(c.tpPos), Float(c.tpPos + c.fBA + c.fCA)),
      FDiv(Float(c.tpNeg), Float(c.tpNeg + c.fAB + c.fCB)),
      FDiv(Float(c.tpNeu), Float(c.tpNeu + c.fBC + c.fAC))>>

\* recall_3 with recall2 summing column B instead of row B
recall_3_column(c) ==
    <<FDiv(Float(c.tpPos), Float(c.tpPos + c.fAB + c.fAC)),
      FDiv(Float(c.tpNeg), Float(c.tpNeg + c.fAB + c.fCB)),
      FDiv(Float(c.tpNeu), Float(c.tpNeu + c.fCA + c.fCB))>>

recall_3(c) ==
    <<FDiv(Float(c.tpPos), Float(c.tpPos + c.fAB + c.fAC)),
      FDiv(Float(c.tpNeg), Float(c.tpNeg + c.fBA + c.fBC)),
      FDiv(Float(c.tpNeu), Float(c.tpNeu + c.fCA + c.fCB))>>

\* metrics_3 returning the third class's triple first and the first's last
metrics_3_reversed(matrix) ==
    LET c == cells_3(matrix)
        accuracy == accuracy_3(c)
        precision == precision_3(c)
        recall == recall_3(c)
        f1_1 == f1_score(precision[1], recall[1])
        f1_2 == f1_score(precision[2], recall[2])
        f1_3 == f1_score(precision[3], recall[3])
    IN <<accuracy, precision[3], recall[3], f1_3, precision[2], recall[2], f1_2,
         precision[1], recall[1], f1_1>>

metrics_3(matrix) ==
    LET c == cells_3(matrix)
        accuracy == accuracy_3(c)
        precision == precision_3(c)
        recall == recall_3(c)
        f1_1 == f1_score(precision[1], recall[1])
        f1_2 == f1_score(precision[2], recall[2])
        f1_3 == f1_score(precision[3], recall[3])
    IN <<accuracy, precision[1], recall[1], f1_1, precision[2], recall[2], f1_2,
         precision[3], recall[3], f1_3>>

\* num == 5
cells_5(matrix) ==
    [tpOneStar |-> matrix[0][0], tpTwoStar |-> matrix[1][1],
     tpThreeStar |-> matrix[2][2], tpFourStar |-> matrix[3][3],
     tpFiveStar |-> matrix[4][4],
     fAB |-> matrix[0][1], fAC |-> matrix[0][2], fAD |-> matrix[0][3], fAE |-> matrix[0][4],
     fBA |-> matrix[1][0], fBC |-> matrix[1][2], fBD |-> matrix[1][3], fBE |-> matrix[1][4],
     fCA |-> matrix[2][0], fCB |-> matrix[2][1], fCD |-> matrix[2][3], fCE |-> matrix[2][4],
     fDA |-> matrix[3][0], fDB |-> matrix[3][1], fDC |-> matrix[3][2], fDE |-> matrix[3][4],
     fEA |-> matrix[4][0], fEB |-> matrix[4][1], fEC |-> matrix[4][2], fED |-> matrix[4][3]]

\* accuracy_5 with one of the twenty off-diagonal cells (fED) left out
accuracy_5_short(c) ==
    FDiv(Float(c.tpOneStar + c.tpTwoStar + c.tpThreeStar + c.tpFourStar + c.tpFiveStar),
         Float(c.tpOneStar + c.tpTwoStar + c.tpThreeStar + c.tpFourStar + c.tpFiveStar
               + c.fAB + c.fAC + c.fAD + c.fAE + c.fBA + c.fBC + c.fBD + c.fBE
               + c.fCA + c.fCB + c.fCD + c.fCE + c.fDA + c.fDB + c.fDC + c.fDE
               + c.fEA + c.fEB + c.fEC))

accuracy_5(c) ==
    FDiv(Float(c.tpOneStar + c.tpTwoStar + c.tpThreeStar + c.tpFourStar + c.tpFiveStar),
         Float(c.tpOneStar + c.tpTwoStar + c.tpThreeStar + c.tpFourStar + c.tpFiveStar
               + c.fAB + c.fAC + c.fAD + c.fAE + c.fBA + c.fBC + c.fBD + c.fBE
               + c.fCA + c.fCB + c.fCD + c.fCE + c.fDA + c.fDB + c.fDC + c.fDE
               + c.fEA + c.fEB + c.fEC + c.fED))

precision_5(c) ==
    <<FDiv(Float(c.tpOneStar), Float(c.tpOneStar + c.fBA + c.fCA + c.fDA + c.fEA)),
      FDiv(Float(c.tpTwoStar), Float(c.tpTwoStar + c.fAB + c.fCB + c.fDB + c.fEB)),
      FDiv(Float(c.tpThreeStar), Float(c.tpThreeStar + c.fAC + c.fBC + c.fDC + c.fEC)),
      FDiv(Float(c.tpFourStar), Float(c.tpFourStar + c.fAD + c.fBD + c.fCD + c.fED)),
      FDiv(Float(c.tpFiveStar), Float(c.tpFiveStar + c.fAE + c.fBE + c.fCE + c.fDE))>>

recall_5(c) ==
    <<FDiv(Float(c.tpOneStar), Float(c.tpOneStar + c.fAB + c.fAC + c.fAD + c.fAE)),
      FDiv(Float(c.tpTwoStar), Float(c.tpTwoStar + c.fBA + c.fBC + c.fBD + c.fBE)),
      FDiv(Float(c.tpThreeStar), Float(c.tpThreeStar + c.fCA + c.fCB + c.fCD + c.fCE)),
      FDiv(Float(c.tpFourStar), Float(c.tpFourStar + c.fDA + c.fDB + c.fDC + c.fDE)),
      FDiv(Float(c.tpFiveStar), Float(c.tpFiveStar + c.fEA + c.fEB + c.fEC + c.fED))>>

metrics_5(matrix) ==
    LET c == cells_5(matrix)
        accuracy == accuracy_5(c)
        precision == precision_5(c)
        recall == recall_5(c)
        f1_1 == f1_score(precision[1], recall[1])
        f1_2 == f1_score_guarded(precision[2], recall[2])
        f1_3 == f1_score(precision[3], recall[3])
        f1_4 == f1_score(precision[4], recall[4])
        f1_5 == f1_score(precision[5], recall[5])
    IN <<accuracy, precision[1], recall[1], f1_1, precision[2], recall[2], f1_2,
         precision[3], recall[3], f1_3, precision[4], recall[4], f1_4,
         precision[5], recall[5], f1_5>>

NoResult == [status |-> "none", num |-> 0, matrix |-> <<>>, values |-> <<>>]

\* Indexing a matrix with fewer than num rows raises IndexError; nothing
\* compares the matrix's size with num otherwise.
metrics(actual, predicted, num) ==
    LET matrix == confusion_matrix(actual, predicted)
    IN IF Size(matrix) < num
       THEN [status |-> "IndexError", num |-> num, matrix |-> matrix,
             values |-> <<>>]
       ELSE [status |-> "ok", num |-> num, matrix |-> matrix,
             values |-> CASE num = 2 -> metrics_2(matrix)
                          [] num = 3 -> metrics_3(matrix)
                          [] num = 5 -> metrics_5(matrix)]

----------------------------------------------------------------------------
(* CNNReviewClassifier: tp/fp/tn/fn counting and the metrics built on it.  *)
(* Here the counts are Python ints, so a zero divisor raises.              *)

\* the counts in the order the docstring gives them: fp, tp, tn, fn
batch_metrics_as_documented(preds, ratings) ==
    LET I == 1..Len(preds)
    IN <<Cardinality({i \in I : preds[i] = 1 /\ ratings[i] = 0}),
         Cardinality({i \in I : preds[i] = 1 /\ ratings[i] = 1}),
         Cardinality({i \in I : preds[i] = 0 /\ ratings[i] = 0}),
         Cardinality({i \in I : preds[i] = 0 /\ ratings[i] = 1})>>

\* <<true_pos, false_pos, true_neg, false_neg>> of one batch; the arguments
\* are the rounded predictions and the ratings, both lists of 0/1
batch_metrics(preds, ratings) ==
    LET I == 1..Len(preds)
    IN <<Cardinality({i \in I : preds[i] = 1 /\ ratings[i] = 1}),
         Cardinality({i \in I : preds[i] = 1 /\ ratings[i] = 0}),
         Cardinality({i \in I : preds[i] = 0 /\ ratings[i] = 0}),
         Cardinality({i \in I : preds[i] = 0 /\ ratings[i] = 1})>>

\* a data loader cuts its dataset into batches of batch_size examples
NumBatches(seq, batch_size) == (Len(seq) + batch_size - 1) \div batch_size

Batch(seq, batch_size, k) ==
    SubSeq(seq, (k - 1) * batch_size + 1,
           IF k * batch_size < Len(seq) THEN k * batch_size ELSE Len(seq))

\* the totals the loop over the first k batches accumulates, the batches in
\* skipped being passed over (train skips a batch of fewer than 4 tokens)
RECURSIVE loop_totals(_, _, _, _, _)
loop_totals(preds, ratings, batch_size, skipped, k) ==
    IF k = 0 THEN <<0, 0, 0, 0>>
    ELSE LET rest == loop_totals(preds, ratings, batch_size, skipped, k - 1)
             b == IF k \in skipped THEN <<0, 0, 0, 0>>
                  ELSE batch_metrics(Batch(preds, batch_size, k),
                                     Batch(ratings, batch_size, k))
         IN <<rest[1] + b[1], rest[2] + b[2], rest[3] + b[3], rest[4] + b[4]>>

NoCnnResult == [op |-> "none", status |-> "none", totals |-> <<0, 0, 0, 0>>, values |-> <<>>]

\* <<accuracy, precision, recall>> from the totals, scaled by scale;
\* Python's / raises ZeroDivisionError on a zero divisor
cnn_metrics(totals, scale) ==
    LET total_tp == totals[1]
        total_fp == totals[2]
        total_tn == totals[3]
        total_fn == totals[4]
    IN IF \/ total_tp + total_tn + total_fp + total_fn = 0
          \/ total_tp + total_fp = 0
          \/ total_tp + total_fn = 0
       THEN [status |-> "ZeroDivisionError", totals |-> totals, values |-> <<>>]
       ELSE [status |-> "ok", totals |-> totals,
             values |->
               <<FMul(FDiv(Float(total_tp + total_tn),
                           Float(total_tp + total_tn + total_fp + total_fn)),
                      Float(scale)),
                 FMul(FDiv(Float(total_tp), Float(total_tp + total_fp)), Float(scale)),
                 FMul(FDiv(Float(total_tp), Float(total_tp + total_fn)), Float(scale))>>]

\* CNNReviewClassifier.evaluate: every batch of the validation loader counts
evaluate(preds, ratings, batch_size) ==
    cnn_metrics(loop_totals(preds, ratings, batch_size, {},
                            NumBatches(ratings, batch_size)), 100)

\* one epoch of CNNReviewClassifier.train: the batches in skipped are the
\* ones with fewer than 4 tokens
train_epoch(preds, ratings, batch_size, skipped) ==
    cnn_metrics(loop_totals(preds, ratings, batch_size, skipped,
                            NumBatches(ratings, batch_size)), 1)

----------------------------------------------------------------------------
(* ReviewClassifier: thresholds and the labeling loops of preprocess and   *)
(* classify.  A CSV row is [comment, rating]; pandas reads a missing       *)
(* comment as the float nan, which is what type(...) == float tests.       *)

\* class attributes
default_negative_threshold == 2
default_positive_threshold == 4

\* An optional argument: <<>> for None, <<v>> for the number v.
\* __init__: "if negative_threshold: self.negative_threshold = ..."
init_threshold(arg, default) ==
    IF arg = <<>> THEN default
    ELSE IF arg[1] = 0 THEN default
    ELSE arg[1]

\* __init__ called without thresholds
NoArgs == [negative_threshold |-> <<>>, positive_threshold |-> <<>>]

\* no label: the record is passed over (continue)
Drop == <<>>

\* preprocess_row_3 with the neutral band closed at the negative threshold
preprocess_row_3_closed(review, neg, pos) ==
    IF review.comment = "nan" THEN [rating |-> Drop, count |-> "none"]
    ELSE IF neg <= review.rating /\ review.rating < pos
         THEN [rating |-> <<1>>, count |-> "neutral"]
    ELSE IF review.rating <= neg THEN [rating |-> <<0>>, count |-> "negative"]
    ELSE [rating |-> <<2>>, count |-> "positive"]

\* One pass of preprocess's loop for num == 3: the label appended to target
\* (<<label>>, or Drop when the record is passed over) and the counter that
\* goes up
preprocess_row_3(review, neg, pos) ==
    IF review.comment = "nan" THEN [rating |-> Drop, count |-> "none"]
    ELSE IF neg < review.rating /\ review.rating < pos
         THEN [rating |-> <<1>>, count |-> "neutral"]
    ELSE IF review.rating <= neg THEN [rating |-> <<0>>, count |-> "negative"]
    ELSE [rating |-> <<2>>, count |-> "positive"]

\* preprocess_row_2 passing over a record of the neutral band uncounted
preprocess_row_2_uncounted(review, neg, pos) ==
    IF review.comment = "nan" THEN [rating |-> Drop, count |-> "none"]
    ELSE IF neg < review.rating /\ review.rating < pos
         THEN [rating |-> Drop, count |-> "none"]
    ELSE IF review.rating <= neg THEN [rating |-> <<0>>, count |-> "negative"]
    ELSE [rating |-> <<1>>, count |-> "positive"]

\* num == 2
preprocess_row_2(review, neg, pos) ==
    IF review.comment = "nan" THEN [rating |-> Drop, count |-> "none"]
    ELSE IF neg < review.rating /\ review.rating < pos
         THEN [rating |-> Drop, count |-> "neutral"]
    ELSE IF review.rating <= neg THEN [rating |-> <<0>>, count |-> "negative"]
    ELSE [rating |-> <<1>>, count |-> "positive"]

\* num == 5
preprocess_row_5(review) ==
    IF review.comment = "nan" THEN [rating |-> Drop, count |-> "none"]
    ELSE IF review.rating = 1 THEN [rating |-> <<1>>, count |-> "negative"]
    ELSE IF review.rating = 2 THEN [rating |-> <<2>>, count |-> "negative"]
    ELSE IF review.rating = 3 THEN [rating |-> <<3>>, count |-> "neutral"]
    ELSE IF review.rating = 4 THEN [rating |-> <<4>>, count |-> "positive"]
    ELSE [rating |-> <<5>>, count |-> "positive"]

preprocess_row(review, num, neg, pos) ==
    CASE num = 3 -> preprocess_row_3(review, neg, pos)
      [] num = 2 -> preprocess_row_2(review, neg, pos)
      [] num = 5 -> preprocess_row_5(review)

\* preprocess_loop keeping the comment of a record it gives no label
RECURSIVE preprocess_loop_unpaired(_, _, _, _, _)
preprocess_loop_unpaired(rows, num, neg, pos, k) ==
    IF k = 0
    THEN [target |-> <<>>, reviews |-> <<>>,
          info |-> [positive |-> 0, negative |-> 0, neutral |-> 0]]
    ELSE LET acc == preprocess_loop_unpaired(rows, num, neg, pos, k - 1)
             row == preprocess_row(rows[k], num, neg, pos)
             info == IF row.count = "none" THEN acc.info
                     ELSE [acc.info EXCEPT ![row.count] = @ + 1]
         IN IF row.count = "none"
            THEN acc
            ELSE [target |-> acc.target \o row.rating,
                  reviews |-> Append(acc.reviews, k),
                  info |-> info]

\* The loop over the first k rows: target, reviews (the kept comments, each
\* named by the number of its row) and the three counters
RECURSIVE preprocess_loop(_, _, _, _, _)
preprocess_loop(rows, num, neg, pos, k) ==
    IF k = 0
    THEN [target |-> <<>>, reviews |-> <<>>,
          info |-> [positive |-> 0, negative |-> 0, neutral |-> 0]]
    ELSE LET acc == preprocess_loop(rows, num, neg, pos, k - 1)
             row == preprocess_row(rows[k], num, neg, pos)
             info == IF row.count = "none" THEN acc.info
                     ELSE [acc.info EXCEPT ![row.count] = @ + 1]
         IN IF row.rating = Drop
            THEN [acc EXCEPT !.info = info]
            ELSE [target |-> acc.target \o row.rating,
                  reviews |-> Append(acc.reviews, k),
                  info |-> info]

\* preprocess(reviews_filename, num): the loop, then the vectorizer is
\* fitted on the kept comments; CountVectorizer.fit raises ValueError
\* (empty vocabulary) when there is none
preprocess(rows, num, neg, pos) ==
    LET out == preprocess_loop(rows, num, neg, pos, Len(rows))
    IN IF out.reviews = <<>>
       THEN [op |-> "preprocess", num |-> num, status |-> "ValueError",
             target |-> <<>>, reviews |-> <<>>, info |-> out.info]
       ELSE [op |-> "preprocess", num |-> num, status |-> "ok",
             target |-> out.target, reviews |-> out.reviews, info |-> out.info]

\* classify_row_2 keeping the records of the neutral band as positive
classify_row_2_keep(review, neg, pos) ==
    IF review.comment = "nan" THEN Drop
    ELSE IF review.rating <= neg THEN <<0>>
    ELSE <<1>>

\* One pass of classify's loop for num == 2
classify_row_2(review, neg, pos) ==
    IF review.comment = "nan" \/ (neg < review.rating /\ review.rating < pos)
    THEN Drop
    ELSE IF review.rating <= neg THEN <<0>>
    ELSE <<1>>

\* num == 3
classify_row_3(review, neg, pos) ==
    IF review.comment = "nan" THEN Drop
    ELSE IF neg < review.rating /\ review.rating < pos THEN <<1>>
    ELSE IF review.rating <= neg THEN <<0>>
    ELSE <<2>>

\* num == 5
classify_row_5(review) ==
    IF review.comment = "nan" THEN Drop
    ELSE IF review.rating = 1 THEN <<1>>
    ELSE IF review.rating = 2 THEN <<2>>
    ELSE IF review.rating = 3 THEN <<3>>
    ELSE IF review.rating = 4 THEN <<4>>
    ELSE <<5>>

classify_row(review, num, neg, pos) ==
    CASE num = 2 -> classify_row_2(review, neg, pos)
      [] num = 3 -> classify_row_3(review, neg, pos)
      [] num = 5 -> classify_row_5(review)

\* The loop over the first k rows: comments (each named by the number of
\* its row) and target
RECURSIVE classify_loop(_, _, _, _, _)
classify_loop(rows, num, neg, pos, k) ==
    IF k = 0 THEN [target |-> <<>>, reviews |-> <<>>]
    ELSE LET acc == classify_loop(rows, num, neg, pos, k - 1)
             rating == classify_row(rows[k], num, neg, pos)
         IN IF rating = Drop THEN acc
            ELSE [target |-> acc.target \o rating,
                  reviews |-> Append(acc.reviews, k)]

NoInfo == [positive |-> 0, negative |-> 0, neutral |-> 0]

\* classify(output_file, num, csv_file, evaluate=evaluate_arg): refuses to run
\* without a model; np.array([...]).squeeze(1) raises AxisError when no
\* comment was kept.  predictions is what self.model.predict returns.  One
\* line per kept comment is written, and with evaluate the metrics follow:
\* they come from metrics(target, predictions), called without num, so that
\* metrics computes for two classes and returns 7 values, which the
\* num == 3 and num == 5 branches unpack into 10 and 16 names (ValueError).
classify(trained, rows, num, neg, pos, evaluate_arg, predictions) ==
    LET out == classify_loop(rows, num, neg, pos, Len(rows))
        done == [op |-> "classify", num |-> num, status |-> "ok",
                 target |-> out.target, reviews |-> out.reviews,
                 info |-> NoInfo, evaluate |-> evaluate_arg,
                 lines |-> Len(out.reviews), evaluation |-> <<>>]
    IN IF trained = <<>>
       THEN [op |-> "classify", num |-> num, status |-> "Exception",
             target |-> <<>>, reviews |-> <<>>, info |-> NoInfo,
             evaluate |-> evaluate_arg, lines |-> 0, evaluation |-> <<>>]
       ELSE IF out.reviews = <<>>
       THEN [op |-> "classify", num |-> num, status |-> "AxisError",
             target |-> <<>>, reviews |-> <<>>, info |-> NoInfo,
             evaluate |-> evaluate_arg, lines |-> 0, evaluation |-> <<>>]
       ELSE IF ~evaluate_arg THEN done
       ELSE LET called == metrics(out.target, predictions, 2)
            IN IF called.status # "ok"
               THEN [done EXCEPT !.status = called.status]
               ELSE IF num # 2
               THEN [done EXCEPT !.status = "ValueError"]
               ELSE [done EXCEPT !.evaluation = called.values]

NoLabeled == [op |-> "none", num |-> 0, status |-> "none",
              target |-> <<>>, reviews |-> <<>>, info |-> NoInfo]

----------------------------------------------------------------------------
(* ReviewClassifier.evaluate_average_accuracy: stratified k-fold cross-    *)
(* validation.  Positions in data and target count from 1.  An optional    *)
(* estimator is <<>> for None and <<estimator>> otherwise.                 *)

\* generate_model(): an untrained estimator for 'nb', 'rf' or 'svm', None
\* for any other classifier_type
generate_model(type) ==
    IF type \in {"nb", "rf", "svm"}
    THEN <<[kind |-> type,
            n_estimators |-> IF type = "rf" THEN 100 ELSE 0,
            fitted_on |-> <<>>]>>
    ELSE <<>>

\* "if model:" in evaluate_accuracy.  A random forest is a container: its
\* truth value is that of len(estimators_), n_estimators once fitted; the
\* other estimators define neither __bool__ nor __len__.
truthy(model_arg) ==
    IF model_arg = <<>> THEN FALSE
    ELSE IF model_arg[1].kind = "rf" THEN model_arg[1].n_estimators > 0
    ELSE TRUE

\* the ascending sequence of the integers of S
RECURSIVE SortedSeq(_)
SortedSeq(S) ==
    IF S = {} THEN <<>>
    ELSE LET m == CHOOSE x \in S : \A y \in S : x <= y
         IN <<m>> \o SortedSeq(S \ {m})

\* [s[x] for x in idx]
Take(s, idx) == [k \in 1..Len(idx) |-> s[idx[k]]]

\* number of examples of class c
ClassCount(target, c) == Cardinality({x \in 1..Len(target) : target[x] = c})

\* number of examples of class c that test_folds puts in test fold i
FoldClassCount(target, test_folds, c, i) ==
    Cardinality({x \in 1..Len(test_folds) : target[x] = c /\ test_folds[x] = i})

\* StratifiedKFold(n_splits) refuses n_splits < 2, and split(data, target)
\* refuses n_splits greater than the number of members of every class
split_error(target, n_splits) ==
    \/ n_splits < 2
    \/ \A c \in Range(target) : ClassCount(target, c) < n_splits

\* StratifiedKFold(n_splits).split(data, target): the assignments of a test
\* fold to every example that spread each class evenly over the folds.
\* Which of them is returned depends on the library's version.
\* (Every fold gets the n-th part of each class, rounded down or up.)
RECURSIVE fold_assignments(_, _, _)
fold_assignments(target, n_splits, n) ==
    IF n = 0 THEN {<<>>}
    ELSE LET c == target[n]
             most == (ClassCount(target, c) + n_splits - 1) \div n_splits
         IN {Append(fj[1], fj[2]) :
                fj \in {gk \in fold_assignments(target, n_splits, n - 1)
                                 \X (1..n_splits) :
                           FoldClassCount(target, gk[1], c, gk[2]) < most}}

StratifiedKFold_split(target, n_splits) ==
    {test_folds \in fold_assignments(target, n_splits, Len(target)) :
        \A c \in Range(target) : \A i \in 1..n_splits :
            FoldClassCount(target, test_folds, c, i)
                >= ClassCount(target, c) \div n_splits}

\* the test and train index arrays of fold i, both ascending
test_indices(test_folds, i) ==
    SortedSeq({x \in 1..Len(test_folds) : test_folds[x] = i})

\* train_indices with the fold's own test examples left in
train_indices_leaky(test_folds, i) ==
    SortedSeq({x \in 1..Len(test_folds) : test_folds[x] \in 1..Len(test_folds)})

train_indices(test_folds, i) ==
    SortedSeq({x \in 1..Len(test_folds) : test_folds[x] # i})

\* model.fit(x_train, y_train): LinearSVC refuses a training set with one
\* class only
fit_error(estimator, y_train) ==
    estimator.kind = "svm" /\ Cardinality(Range(y_train)) < 2

fitted(estimator, train) == [estimator EXCEPT !.fitted_on = train]

\* the vectorizer __init__ makes: <<>>, until it is fitted; fitted, a
\* vectorizer is <<vocabulary>>, the words that are its features.  Every
\* comment is one word.
CountVectorizer == <<>>

\* the words of the comments of the rows preprocess kept
vocabulary(rows, kept) == {rows[kept[k]].comment : k \in 1..Len(kept)}

\* self.vectorizer after preprocess(reviews_filename, num) returned out:
\* self.vectorizer.fit(reviews) fits the one vectorizer of the instance
\* again, and a call that raised has left it as it was
vectorizer_fit(fitted_before, rows, out) ==
    IF out.status = "ok" THEN <<vocabulary(rows, out.reviews)>>
    ELSE fitted_before

\* fit(data, target): the model generate_model() gives, fitted to vectors
\* over the features of data
fit(type, features) == fitted(generate_model(type)[1], features)

\* predictor taking the instance's model whatever it is given
predictor_self(model_arg) == "self.model"

\* evaluate_accuracy(data, target, num, model): which model predicts
predictor(model_arg) == IF truthy(model_arg) THEN "model" ELSE "self.model"

\* np.mean(np.array(values)): nan for no value
RECURSIVE FSum(_, _)
FSum(values, k) == IF k = 0 THEN Zero ELSE FAdd(FSum(values, k - 1), values[k])

\* mean without the division by the number of values
mean_total(values) == FSum(values, Len(values))

mean(values) == FDiv(FSum(values, Len(values)), Float(Len(values)))

\* average with the factor 100 left out
average_fraction(values) == mean(values)

\* np.mean(np.array(values)) * 100
average(values) == FMul(mean(values), Float(100))

\* the lists evaluate_average_accuracy starts with
lists_2 ==
    [accuracies |-> <<>>,
     class_1_precisions |-> <<>>,
     class_1_recalls |-> <<>>,
     class_1_f1s |-> <<>>,
     class_2_precisions |-> <<>>,
     class_2_recalls |-> <<>>,
     class_2_f1s |-> <<>>]

lists_3 ==
    [accuracies |-> <<>>,
     class_1_precisions |-> <<>>,
     class_1_recalls |-> <<>>,
     class_1_f1s |-> <<>>,
     class_2_precisions |-> <<>>,
     class_2_recalls |-> <<>>,
     class_2_f1s |-> <<>>,
     class_3_precisions |-> <<>>,
     class_3_recalls |-> <<>>,
     class_3_f1s |-> <<>>]

lists_5 ==
    [accuracies |-> <<>>,
     class_1_precisions |-> <<>>,
     class_1_recalls |-> <<>>,
     class_1_f1s |-> <<>>,
     class_2_precisions |-> <<>>,
     class_2_recalls |-> <<>>,
     class_2_f1s |-> <<>>,
     class_3_precisions |-> <<>>,
     class_3_recalls |-> <<>>,
     class_3_f1s |-> <<>>,
     class_4_precisions |-> <<>>,
     class_4_recalls |-> <<>>,
     class_4_f1s |-> <<>>,
     class_5_precisions |-> <<>>,
     class_5_recalls |-> <<>>,
     class_5_f1s |-> <<>>]

empty_lists(num) ==
    CASE num = 2 -> lists_2
      [] num = 3 -> lists_3
      [] num = 5 -> lists_5

\* the appends at the end of one pass of the loop; values is what
\* evaluate_accuracy returned for the fold
append_fold(lists, values, num) ==
    LET two ==
          [lists EXCEPT
              !.accuracies = Append(@, values[1]),
              !.class_1_precisions = Append(@, values[2]),
              !.class_2_precisions = Append(@, values[5]),
              !.class_1_recalls = Append(@, values[3]),
              !.class_2_recalls = Append(@, values[6]),
              !.class_1_f1s = Append(@, values[4]),
              !.class_2_f1s = Append(@, values[7])]
        three ==
          IF num = 3 \/ num = 5
          THEN [two EXCEPT
              !.class_3_precisions = Append(@, values[8]),
              !.class_3_recalls = Append(@, values[9]),
              !.class_3_f1s = Append(@, values[10])]
          ELSE two
    IN IF num = 5
       THEN [three EXCEPT
            !.class_4_precisions = Append(@, values[11]),
            !.class_4_recalls = Append(@, values[12]),
            !.class_4_f1s = Append(@, values[13]),
            !.class_5_precisions = Append(@, values[14]),
            !.class_5_recalls = Append(@, values[15]),
            !.class_5_f1s = Append(@, values[16])]
       ELSE three

\* the dictionary evaluate_average_accuracy returns
report_2(lists) ==
    [accuracies |-> lists.accuracies,
     positive_precisions |-> lists.class_1_precisions,
     positive_recalls |-> lists.class_1_recalls,
     positive_f1_scores |-> lists.class_1_f1s,
     negative_precisions |-> lists.class_2_precisions,
     negative_recalls |-> lists.class_2_recalls,
     negative_f1_scores |-> lists.class_2_f1s,
     average_accuracy |-> average(lists.accuracies),
     average_positive_precision |-> average(lists.class_1_precisions),
     average_positive_recall |-> average(lists.class_1_recalls),
     average_positive_f1_score |-> average(lists.class_1_f1s),
     average_negative_precision |-> average(lists.class_2_precisions),
     average_negative_recall |-> average(lists.class_2_recalls),
     average_negative_f1_score |-> average(lists.class_2_f1s)]

report_3(lists) ==
    [accuracies |-> lists.accuracies,
     positive_precisions |-> lists.class_1_precisions,
     positive_recalls |-> lists.class_1_recalls,
     positive_f1_scores |-> lists.class_1_f1s,
     negative_precisions |-> lists.class_2_precisions,
     negative_recalls |-> lists.class_2_recalls,
     negative_f1_scores |-> lists.class_2_f1s,
     neutral_precisions |-> lists.class_3_precisions,
     neutral_recalls |-> lists.class_3_recalls,
     neutral_f1_scores |-> lists.class_3_f1s,
     average_accuracy |-> average(lists.accuracies),
     average_positive_precision |-> average(lists.class_1_precisions),
     average_positive_recall |-> average(lists.class_1_recalls),
     average_positive_f1_score |-> average(lists.class_1_f1s),
     average_negative_precision |-> average(lists.class_2_precisions),
     average_negative_recall |-> average(lists.class_2_recalls),
     average_negative_f1_score |-> average(lists.class_2_f1s),
     average_neutral_precision |-> average(lists.class_3_precisions),
     average_neutral_recall |-> average(lists.class_3_recalls),
     average_neutral_f1_score |-> average(lists.class_3_f1s)]

report_5(lists) ==
    [accuracies |-> lists.accuracies,
     onestar_precisions |-> lists.class_1_precisions,
     onestar_recalls |-> lists.class_1_recalls,
     onestar_f1_scores |-> lists.class_1_f1s,
     twostar_precisions |-> lists.class_2_precisions,
     twostar_recalls |-> lists.class_2_recalls,
     twostar_f1_scores |-> lists.class_2_f1s,
     threestar_precisions |-> lists.class_3_precisions,
     threestar_recalls |-> lists.class_3_recalls,
     threestar_f1_scores |-> lists.class_3_f1s,
     fourstar_precisions |-> lists.class_4_precisions,
     fourstar_recalls |-> lists.class_4_recalls,
     fourstar_f1_scores |-> lists.class_4_f1s,
     fivestar_precisions |-> lists.class_5_precisions,
     fivestar_recalls |-> lists.class_5_recalls,
     fivestar_f1_scores |-> lists.class_5_f1s,
     average_accuracy |-> average(lists.accuracies),
     average_onestar_precision |-> average(lists.class_1_precisions),
     average_onestar_recall |-> average(lists.class_1_recalls),
     average_onestar_f1_score |-> average(lists.class_1_f1s),
     average_twostar_precision |-> average(lists.class_2_precisions),
     average_twostar_recall |-> average(lists.class_2_recalls),
     average_twostar_f1_score |-> average(lists.class_2_f1s),
     average_threestar_precision |-> average(lists.class_3_precisions),
     average_threestar_recall |-> average(lists.class_3_recalls),
     average_threestar_f1_score |-> average(lists.class_3_f1s),
     average_fourstar_precision |-> average(lists.class_4_precisions),
     average_fourstar_recall |-> average(lists.class_4_recalls),
     average_fourstar_f1_score |-> average(lists.class_4_f1s),
     average_fivestar_precision |-> average(lists.class_5_precisions),
     average_fivestar_recall |-> average(lists.class_5_recalls),
     average_fivestar_f1_score |-> average(lists.class_5_f1s)]

report(lists, num) ==
    CASE num = 2 -> report_2(lists)
      [] num = 3 -> report_3(lists)
      [] num = 5 -> report_5(lists)

\* no call of evaluate_average_accuracy yet
NoRun ==
    [pc |-> "none", num |-> 0, n_folds |-> 0, data |-> <<>>, target |-> <<>>,
     test_folds |-> <<>>, folds |-> <<>>, lists |-> <<>>, metrics_ |-> <<>>]

\* evaluate_average_accuracy up to the loop: preprocess, then the splitter
start_average(rows, num, neg, pos, n_folds, test_folds) ==
    LET out == preprocess(rows, num, neg, pos)
    IN IF out.status # "ok"
       THEN [NoRun EXCEPT !.pc = out.status, !.num = num, !.n_folds = n_folds]
       ELSE IF split_error(out.target, n_folds)
       THEN [NoRun EXCEPT !.pc = "ValueError", !.num = num, !.n_folds = n_folds,
                          !.data = out.reviews, !.target = out.target]
       ELSE [pc |-> "loop", num |-> num, n_folds |-> n_folds,
             data |-> out.reviews, target |-> out.target,
             test_folds |-> test_folds, folds |-> <<>>,
             lists |-> empty_lists(num), metrics_ |-> <<>>]

\* One pass of the loop, and the averages and the return after the last
\* one.  preds is what the predicting model returns for x_test.
fold_pass(run, type, preds) ==
    LET i == Len(run.folds) + 1
        train == train_indices(run.test_folds, i)
        test == test_indices(run.test_folds, i)
        y_train == Take(run.target, train)
        y_test == Take(run.target, test)
        model_arg == generate_model(type)
    IN IF model_arg = <<>>
       THEN [run EXCEPT !.pc = "AttributeError"]
       ELSE IF fit_error(model_arg[1], y_train)
       THEN [run EXCEPT !.pc = "ValueError"]
       ELSE LET trained == <<fitted(model_arg[1], train)>>
                out == metrics(y_test, preds, run.num)
                fold == [train |-> train, test |-> test, model |-> trained[1],
                         predicted_by |-> predictor(trained), preds |-> preds]
                lists == append_fold(run.lists, out.values, run.num)
            IN IF out.status # "ok"
               THEN [run EXCEPT !.pc = out.status,
                                !.folds = Append(@, fold)]
               ELSE IF i < run.n_folds
               THEN [run EXCEPT !.folds = Append(@, fold), !.lists = lists]
               ELSE [run EXCEPT !.pc = "returned",
                                !.folds = Append(@, fold), !.lists = lists,
                                !.metrics_ = report(lists, run.num)]

----------------------------------------------------------------------------
(* CNNReviewClassifier.train and evaluate_k_fold.  A data loader is given   *)
(* by the predictions the network makes for its examples, their ratings    *)
(* and the batch size.                                                     *)

\* the state train starts its loop with
NoEpochs == [status |-> "ok", num_epoch |-> 1, announced |-> <<>>, epochs |-> <<>>]

\* The epochs of train from the state run on.  skipped[k] holds the batches
\* of fewer than 4 tokens in epoch k, so Len(skipped) is n_epochs.  The
\* range of the for loop is fixed when the loop starts; num_epoch, the
\* number printed at the start of an epoch, goes up by one for every batch
\* passed over and by one at the end of the epoch.
RECURSIVE train_loop(_, _, _, _, _, _)
train_loop(preds, ratings, batch_size, skipped, evaluate_arg, run) ==
    LET epoch == Len(run.announced) + 1
    IN IF epoch > Len(skipped) THEN run
       ELSE LET out == train_epoch(preds, ratings, batch_size, skipped[epoch])
                looped == [run EXCEPT
                             !.announced = Append(@, run.num_epoch),
                             !.num_epoch = @ + Cardinality(skipped[epoch]),
                             !.epochs = Append(@, out)]
                validated == IF evaluate_arg
                             THEN evaluate(preds, ratings, batch_size).status
                             ELSE "ok"
            IN IF out.status # "ok" THEN [looped EXCEPT !.status = out.status]
               ELSE IF validated # "ok" THEN [looped EXCEPT !.status = validated]
               ELSE train_loop(preds, ratings, batch_size, skipped, evaluate_arg,
                               [looped EXCEPT !.num_epoch = @ + 1])

\* train(network, train_loader, n_epochs, valid_loader, evaluate), the
\* validation loader holding the examples of the train loader
train(preds, ratings, batch_size, skipped, evaluate_arg) ==
    LET run == train_loop(preds, ratings, batch_size, skipped, evaluate_arg,
                          NoEpochs)
    IN [op |-> "train_epochs", status |-> run.status,
        totals |-> <<0, 0, 0, 0>>, values |-> <<>>,
        n_epochs |-> Len(skipped), batch_size |-> batch_size,
        skipped |-> skipped, announced |-> run.announced,
        epochs |-> run.epochs]

\* generate_data_loaders(train_data, test_data, 25)
FoldBatchSize == 25

\* The loop of evaluate_k_fold from fold i on: the network of a fold is
\* trained for num_epochs epochs without validation, then evaluated on the
\* test examples of the fold, and the three values are added to the totals
RECURSIVE k_fold_loop(_, _, _, _, _, _)
k_fold_loop(preds, ratings, test_folds, num_folds, num_epochs, i) ==
    IF i > num_folds
    THEN [status |-> "ok", folds |-> <<>>, totals |-> <<Zero, Zero, Zero>>]
    ELSE LET train_idx == train_indices(test_folds, i)
             test == test_indices(test_folds, i)
             trained == train(Take(preds, train_idx), Take(ratings, train_idx),
                              FoldBatchSize, [k \in 1..num_epochs |-> {}], FALSE)
             fold == evaluate(Take(preds, test), Take(ratings, test), FoldBatchSize)
             rest == k_fold_loop(preds, ratings, test_folds, num_folds,
                                 num_epochs, i + 1)
         IN IF trained.status # "ok"
            THEN [status |-> trained.status, folds |-> <<>>,
                  totals |-> <<Zero, Zero, Zero>>]
            ELSE IF fold.status # "ok"
            THEN [status |-> fold.status, folds |-> <<>>,
                  totals |-> <<Zero, Zero, Zero>>]
            ELSE IF rest.status # "ok" THEN rest
            ELSE [status |-> "ok", folds |-> <<fold.values>> \o rest.folds,
                  totals |-> <<FAdd(fold.values[1], rest.totals[1]),
                               FAdd(fold.values[2], rest.totals[2]),
                               FAdd(fold.values[3], rest.totals[3])>>]

\* evaluate_k_fold(input_file, num_folds, num_epochs); test_folds is the
\* split StratifiedKFold makes, <<>> when it refuses.  The averages divide
\* the totals by 5.
evaluate_k_fold(preds, ratings, test_folds, num_folds, num_epochs) ==
    LET looped == k_fold_loop(preds, ratings, test_folds, num_folds, num_epochs, 1)
        failed(status) ==
            [op |-> "evaluate_k_fold", status |-> status,
             totals |-> <<0, 0, 0, 0>>, values |-> <<>>,
             num_folds |-> num_folds, folds |-> <<>>]
    IN IF split_error(ratings, num_folds) THEN failed("ValueError")
       ELSE IF looped.status # "ok" THEN failed(looped.status)
       ELSE [op |-> "evaluate_k_fold", status |-> "ok",
             totals |-> <<0, 0, 0, 0>>,
             values |-> <<FDiv(looped.totals[1], Float(5)),
                          FDiv(looped.totals[2], Float(5)),
                          FDiv(looped.totals[3], Float(5))>>,
             num_folds |-> num_folds, folds |-> looped.folds]

----------------------------------------------------------------------------
(* ReviewDataset.  meta is a dictionary of the class: an object has no     *)
(* meta of its own until load gives it one, and until then self.meta is    *)
(* the dictionary that all such objects share.  An object's own meta is    *)
(* <<>> (none) or <<dictionary>>; a key without a value holds <<>>.  A     *)
(* world is the state the methods work on: the class dictionary, the       *)
(* objects, the files and the clock.                                       *)

\* meta = {'locked': False}
initial_meta ==
    [locked |-> FALSE, startTimestamp |-> <<>>, endTimestamp |-> <<>>]

\* a new object: reviews is the class's empty list
new_dataset(drug_name) ==
    [drug_name |-> drug_name, reviews |-> <<>>, meta |-> <<>>]

\* self.meta
meta_of(w, o) ==
    IF w.datasets[o].meta = <<>> THEN w.meta ELSE w.datasets[o].meta[1]

\* self.meta[key] = value
set_meta(w, o, key, value) ==
    IF w.datasets[o].meta = <<>>
    THEN [w EXCEPT !.meta[key] = value]
    ELSE [w EXCEPT !.datasets[o].meta[1][key] = value]

\* self.meta[key] = time()
stamp(w, o, key) == [set_meta(w, o, key, <<w.now>>) EXCEPT !.now = @ + 1]

\* self.drug_name + '-dataset.pickle'
work_file(drug_name) == <<drug_name, "-dataset.pickle">>

\* self.drug_name + '-dataset-' + str(today) + '.pickle'
final_file(drug_name) == <<drug_name, "-dataset-", "today", ".pickle">>

\* pickle.dump(data, ...): the items of the dictionary, by value
pickle_dump(data) ==
    <<<<"meta", data.meta>>, <<"reviews", data.reviews>>>>

\* pickle.load(...)[key]
pickle_load(bytes, key) ==
    bytes[CHOOSE i \in 1..Len(bytes) : bytes[i][1] = key][2]

\* what a call did: scraped counts the calls of scraper.scrape, written
\* and read hold the files opened for writing and for reading
call(op, o, status, scraped, written, read) ==
    [op |-> op, obj |-> o, status |-> status, scraped |-> scraped,
     written |-> written, read |-> read]

NoCall == call("none", "none", "none", 0, {}, {})

\* "Dataset locked. Please load a different dataset."
refused(w, op, o) == [world |-> w, call |-> call(op, o, "locked", 0, {}, {})]

\* collect(url); reviews is what scraper.scrape(url) returns
collect(w, o, reviews) ==
    IF meta_of(w, o).locked THEN refused(w, "collect", o)
    ELSE LET started == stamp(w, o, "startTimestamp")
             scraped == [started EXCEPT !.datasets[o].reviews = reviews]
         IN [world |-> stamp(scraped, o, "endTimestamp"),
             call |-> call("collect", o, "ok", 1, {}, {})]

\* save without the test of the lock
save_unguarded(w, o) ==
    LET filename == work_file(w.datasets[o].drug_name)
        data == [meta |-> meta_of(w, o), reviews |-> w.datasets[o].reviews]
    IN [world |-> [w EXCEPT !.files[filename] = <<pickle_dump(data)>>],
        call |-> call("save", o, "ok", 0, {filename}, {})]

\* save()
save(w, o) ==
    IF meta_of(w, o).locked THEN refused(w, "save", o)
    ELSE LET filename == work_file(w.datasets[o].drug_name)
             data == [meta |-> meta_of(w, o), reviews |-> w.datasets[o].reviews]
         IN [world |-> [w EXCEPT !.files[filename] = <<pickle_dump(data)>>],
             call |-> call("save", o, "ok", 0, {filename}, {})]

\* final_save building its snapshot before it sets the lock
final_save_late_lock(w, o) ==
    IF meta_of(w, o).locked THEN refused(w, "final_save", o)
    ELSE LET data == [meta |-> meta_of(w, o),
                      reviews |-> w.datasets[o].reviews]
             filename == final_file(w.datasets[o].drug_name)
             locked == set_meta(w, o, "locked", TRUE)
         IN [world |-> [locked EXCEPT !.files[filename] = <<pickle_dump(data)>>],
             call |-> call("final_save", o, "ok", 0, {filename}, {})]

\* final_save()
final_save(w, o) ==
    IF meta_of(w, o).locked THEN refused(w, "final_save", o)
    ELSE LET locked == set_meta(w, o, "locked", TRUE)
             data == [meta |-> meta_of(locked, o),
                      reviews |-> locked.datasets[o].reviews]
             filename == final_file(locked.datasets[o].drug_name)
         IN [world |-> [locked EXCEPT !.files[filename] = <<pickle_dump(data)>>],
             call |-> call("final_save", o, "ok", 0, {filename}, {})]

\* load(filename); <<>> for no filename.  open raises FileNotFoundError
\* for a file that is not there.
load(w, o, filename_arg) ==
    LET filename == IF filename_arg = <<>>
                    THEN work_file(w.datasets[o].drug_name)
                    ELSE filename_arg[1]
    IN IF w.files[filename] = <<>>
       THEN [world |-> w, call |-> call("load", o, "FileNotFoundError", 0, {}, {})]
       ELSE LET bytes == w.files[filename][1]
            IN [world |-> [w EXCEPT
                              !.datasets[o].reviews = pickle_load(bytes, "reviews"),
                              !.datasets[o].meta = <<pickle_load(bytes, "meta")>>],
                call |-> call("load", o, "ok", 0, {}, {filename})]

\* The loop of collect_all_common_reviews from the drug at index i (from 0)
\* on; scrapes[i + 1] is what scraper.scrape returns for that drug
RECURSIVE scrape_loop(_, _, _, _, _)
scrape_loop(w, o, common_drugs, scrapes, i) ==
    IF i >= Len(common_drugs) THEN w
    ELSE LET reviews == scrapes[i + 1]
             kept == IF common_drugs[i + 1] = "Actos"
                     THEN [w EXCEPT !.datasets[o].reviews = reviews]
                     ELSE [w EXCEPT !.datasets[o].reviews = @ \o reviews]
         IN scrape_loop(save(kept, o).world, o, common_drugs, scrapes, i + 1)

\* collect_all_common_reviews(start); common_drugs holds the names that
\* scraper.get_common_drugs() returns
collect_all_common_reviews(w, o, start, common_drugs, scrapes) ==
    IF meta_of(w, o).locked
    THEN refused(w, "collect_all_common_reviews", o)
    ELSE LET loaded == load(w, o, <<>>)
         IN IF loaded.call.status # "ok"
            THEN [world |-> w,
                  call |-> call("collect_all_common_reviews", o,
                                loaded.call.status, 0, {}, {})]
            ELSE LET started == stamp(loaded.world, o, "startTimestamp")
                     looped == scrape_loop(started, o, common_drugs, scrapes, start)
                     passes == IF start < Len(common_drugs)
                               THEN Len(common_drugs) - start ELSE 0
                 IN [world |-> stamp(looped, o, "endTimestamp"),
                     call |-> call("collect_all_common_reviews", o, "ok", passes,
                                   IF passes = 0 THEN {}
                                   ELSE {work_file(w.datasets[o].drug_name)},
                                   loaded.call.read)]

\* remove_empty_comments(): a new list of the reviews with a comment
remove_empty_comments(w, o) ==
    [world |-> [w EXCEPT !.datasets[o].reviews =
                              SelectSeq(@, LAMBDA review : review.comment # "")],
     call |-> call("remove_empty_comments", o, "ok", 0, {}, {})]

\* the position of the first review without the key 'effectiveness', 0 if
\* every review has it
first_unrated(reviews) ==
    IF \A k \in 1..Len(reviews) : reviews[k].effectiveness # <<>> THEN 0
    ELSE CHOOSE k \in 1..Len(reviews) :
            /\ reviews[k].effectiveness = <<>>
            /\ \A j \in 1..(k - 1) : reviews[j].effectiveness # <<>>

\* generate_rating(): every review dictionary is changed in place, rating
\* taking the value of effectiveness and effectiveness being deleted; a
\* review without that key raises KeyError, the reviews before it having
\* been changed
generate_rating(w, o) ==
    LET reviews == w.datasets[o].reviews
        stop == first_unrated(reviews)
        updated == [k \in 1..Len(reviews) |->
                       IF stop = 0 \/ k < stop
                       THEN [reviews[k] EXCEPT !.rating = reviews[k].effectiveness,
                                               !.effectiveness = <<>>]
                       ELSE reviews[k]]
    IN [world |-> [w EXCEPT !.datasets[o].reviews = updated],
        call |-> call("generate_rating", o,
                      IF stop = 0 THEN "ok" ELSE "KeyError", 0, {}, {})]

\* no ReviewDataset object
NoDatasets ==
    /\ ReviewDataset_meta = initial_meta
    /\ datasets = <<>>
    /\ files = <<>>
    /\ now = 0
    /\ last_call = NoCall

----------------------------------------------------------------------------
(* Evaluation: the lists of examples, then one call on them *)

Modes == {2, 3, 5}

\* the labels the labeler gives in each mode
LabelDomain(mode) ==
    CASE mode = 2 -> {0, 1}
      [] mode = 3 -> {0, 1, 2}
      [] mode = 5 -> MinRating..MaxRating

Collecting == result.status = "none" /\ cnn_result.status = "none"

\* confusion_matrix and batch_metrics count (actual, predicted) pairs and
\* never read their positions, so the lists are enumerated up to order:
\* each new pair is no smaller than the last one
InOrder(a, p) ==
    IF Len(actual_ratings) = 0 THEN TRUE
    ELSE LET la == actual_ratings[Len(actual_ratings)]
             lp == predicted_ratings[Len(predicted_ratings)]
         IN IF la = a THEN lp <= p ELSE la < a

\* one more labeled example and the classifier's prediction for it
Observe(a, p) ==
    /\ Collecting
    /\ Len(actual_ratings) < MaxLen
    /\ InOrder(a, p)
    /\ actual_ratings' = Append(actual_ratings, a)
    /\ predicted_ratings' = Append(predicted_ratings, p)
    /\ UNCHANGED <<label_mode, result, cnn_result>>
    /\ UNCHANGED labelerVars
    /\ UNCHANGED kfoldVars
    /\ UNCHANGED datasetVars

\* metrics(actual_ratings, predicted_ratings, num), as evaluate_accuracy and
\* classify call it
Metrics(num) ==
    /\ Collecting
    /\ result' = metrics(actual_ratings, predicted_ratings, num)
    /\ UNCHANGED <<label_mode, actual_ratings, predicted_ratings, cnn_result>>
    /\ UNCHANGED labelerVars
    /\ UNCHANGED kfoldVars
    /\ UNCHANGED datasetVars

\* CNNReviewClassifier.evaluate(network, valid_loader): binary ratings
CnnEvaluate(batch_size) ==
    /\ Collecting
    /\ label_mode = 2
    /\ cnn_result' = [op |-> "evaluate"] @@ evaluate(predicted_ratings, actual_ratings, batch_size)
    /\ UNCHANGED <<label_mode, actual_ratings, predicted_ratings, result>>
    /\ UNCHANGED labelerVars
    /\ UNCHANGED kfoldVars
    /\ UNCHANGED datasetVars

\* one epoch of CNNReviewClassifier.train(network, train_loader, ...)
CnnTrainEpoch(batch_size, skipped) ==
    /\ Collecting
    /\ label_mode = 2
    /\ cnn_result' = [op |-> "train"] @@
                     train_epoch(predicted_ratings, actual_ratings, batch_size, skipped)
    /\ UNCHANGED <<label_mode, actual_ratings, predicted_ratings, result>>
    /\ UNCHANGED labelerVars
    /\ UNCHANGED kfoldVars
    /\ UNCHANGED datasetVars

\* CNNReviewClassifier.train(network, train_loader, n_epochs, ...); the
\* loader is taken to give the same batches in every epoch
CnnTrain(batch_size, skipped, evaluate_arg) ==
    /\ Collecting
    /\ label_mode = 2
    /\ cnn_result' = train(predicted_ratings, actual_ratings, batch_size,
                           skipped, evaluate_arg)
    /\ UNCHANGED <<label_mode, actual_ratings, predicted_ratings, result>>
    /\ UNCHANGED labelerVars
    /\ UNCHANGED kfoldVars
    /\ UNCHANGED datasetVars

\* the splits StratifiedKFold may make of the evaluated examples
CnnSplits(num_folds) ==
    IF split_error(actual_ratings, num_folds) THEN {<<>>}
    ELSE StratifiedKFold_split(actual_ratings, num_folds)

\* CNNReviewClassifier.evaluate_k_fold(input_file, num_folds, num_epochs)
CnnEvaluateKFold(test_folds, num_folds, num_epochs) ==
    /\ Collecting
    /\ label_mode = 2
    /\ cnn_result' = evaluate_k_fold(predicted_ratings, actual_ratings,
                                     test_folds, num_folds, num_epochs)
    /\ UNCHANGED <<label_mode, actual_ratings, predicted_ratings, result>>
    /\ UNCHANGED labelerVars
    /\ UNCHANGED kfoldVars
    /\ UNCHANGED datasetVars

Init ==
    /\ label_mode \in Modes
    /\ actual_ratings = <<>>
    /\ predicted_ratings = <<>>
    /\ result = NoResult
    /\ cnn_result = NoCnnResult
    /\ init_args = NoArgs
    /\ negative_threshold = default_negative_threshold
    /\ positive_threshold = default_positive_threshold
    /\ model = <<>>
    /\ vectorizer = CountVectorizer
    /\ df = <<>>
    /\ labeled = NoLabeled
    /\ classifier_type = None
    /\ kfold = NoRun
    /\ NoDatasets

Next ==
    \/ /\ Collecting
       /\ \E a, p \in LabelDomain(label_mode) : Observe(a, p)
    \/ \E num \in Modes : Metrics(num)
    \/ \E batch_size \in 1..MaxBatch : CnnEvaluate(batch_size)
    \/ /\ Collecting
       /\ label_mode = 2
       /\ \E batch_size \in 1..MaxBatch :
            \E skipped \in SUBSET (1..NumBatches(actual_ratings, batch_size)) :
               CnnTrainEpoch(batch_size, skipped)
    \/ /\ Collecting
       /\ label_mode = 2
       /\ \E batch_size \in 1..MaxBatch : \E n_epochs \in 0..MaxEpochs :
            \E short \in SUBSET (1..NumBatches(actual_ratings, batch_size)) :
               \E evaluate_arg \in BOOLEAN :
                  CnnTrain(batch_size, [k \in 1..n_epochs |-> short],
                           evaluate_arg)
    \/ /\ Collecting
       /\ label_mode = 2
       /\ \E num_folds \in 1..MaxFolds : \E num_epochs \in 0..MaxEpochs :
            \E test_folds \in CnnSplits(num_folds) :
               CnnEvaluateKFold(test_folds, num_folds, num_epochs)

Spec == Init /\ [][Next]_vars

----------------------------------------------------------------------------
(* Labeling: a classifier is constructed, a CSV is read, and preprocess    *)
(* or classify runs on it                                                  *)

\* ratings a CSV row may carry: the stars and one value past each end
Ratings == (MinRating - 1)..(MaxRating + 1)

\* values given to __init__ for a threshold
ThresholdArgs == {<<>>} \cup {<<v>> : v \in 0..MaxRating}

Reviews == [comment : {"text", "nan"}, rating : Ratings]

\* one more row of the CSV file, read before a model is trained
ReadRow(review) ==
    /\ labeled.op = "none"
    /\ model = <<>>
    /\ Len(df) < MaxRows
    /\ df' = Append(df, review)
    /\ UNCHANGED <<init_args, negative_threshold, positive_threshold, model,
                   vectorizer, labeled>>
    /\ UNCHANGED metricsVars
    /\ UNCHANGED kfoldVars
    /\ UNCHANGED datasetVars

Preprocess(num) ==
    /\ labeled.op = "none"
    /\ kfold.pc = "none"
    /\ labeled' = preprocess(df, num, negative_threshold, positive_threshold)
    /\ vectorizer' = vectorizer_fit(vectorizer, df, labeled')
    /\ UNCHANGED <<init_args, negative_threshold, positive_threshold, model, df>>
    /\ UNCHANGED metricsVars
    /\ UNCHANGED kfoldVars
    /\ UNCHANGED datasetVars

\* fit(data, target) on what preprocess returned, with a classifier_type
\* that generate_model knows and a target the estimator accepts
Fit ==
    /\ labeled.op = "preprocess"
    /\ labeled.status = "ok"
    /\ generate_model(classifier_type) # <<>>
    /\ ~fit_error(generate_model(classifier_type)[1], labeled.target)
    /\ model' = <<fit(classifier_type, vocabulary(df, labeled.reviews))>>
    /\ labeled' = NoLabeled
    /\ UNCHANGED <<init_args, negative_threshold, positive_threshold, vectorizer,
                   df>>
    /\ UNCHANGED metricsVars
    /\ UNCHANGED kfoldVars
    /\ UNCHANGED datasetVars

\* the predictions a model may return for the comments classify keeps: the
\* label of every comment, or the lowest class for all of them
ClassifyPredictions(num, evaluate_arg) ==
    LET kept == classify_loop(df, num, negative_threshold, positive_threshold,
                              Len(df)).target
        right == [k \in 1..Len(kept) |-> kept[k]]
        lowest == CHOOSE c \in LabelDomain(num) : \A d \in LabelDomain(num) : c <= d
    IN IF evaluate_arg THEN {right, [k \in 1..Len(kept) |-> lowest]}
       ELSE {right}

Classify(num, evaluate_arg, predictions) ==
    /\ labeled.op = "none"
    /\ labeled' = classify(model, df, num, negative_threshold,
                           positive_threshold, evaluate_arg, predictions)
    /\ UNCHANGED <<init_args, negative_threshold, positive_threshold, model,
                   vectorizer, df>>
    /\ UNCHANGED metricsVars
    /\ UNCHANGED kfoldVars
    /\ UNCHANGED datasetVars

\* ReviewClassifier(negative_threshold=neg, positive_threshold=pos)
LabelerInit ==
    /\ \E neg, pos \in ThresholdArgs :
          /\ init_args = [negative_threshold |-> neg, positive_threshold |-> pos]
          /\ negative_threshold = init_threshold(neg, default_negative_threshold)
          /\ positive_threshold = init_threshold(pos, default_positive_threshold)
    /\ model = <<>>
    /\ vectorizer = CountVectorizer
    /\ df = <<>>
    /\ labeled = NoLabeled
    /\ label_mode = 2
    /\ actual_ratings = <<>>
    /\ predicted_ratings = <<>>
    /\ result = NoResult
    /\ cnn_result = NoCnnResult
    /\ classifier_type = "nb"
    /\ kfold = NoRun
    /\ NoDatasets

LabelerNext ==
    \/ \E review \in Reviews : ReadRow(review)
    \/ \E num \in Modes : Preprocess(num)
    \/ Fit
    \/ /\ labeled.op = "none"
       /\ \E num \in Modes :
             \E evaluate_arg \in IF model = <<>> THEN {FALSE} ELSE BOOLEAN :
             \E predictions \in ClassifyPredictions(num, evaluate_arg) :
                 Classify(num, evaluate_arg, predictions)

LabelerSpec == LabelerInit /\ [][LabelerNext]_vars

----------------------------------------------------------------------------
(* Cross-validation: a classifier is constructed, a CSV is read, and       *)
(* evaluate_average_accuracy runs on it, one pass of its loop at a time.   *)
(* The records of the CSV all carry a comment, and records with the same   *)
(* rating are alike: files are read with their ratings in ascending order, *)
(* and among alike records the earlier one gets the earlier test fold and, *)
(* within a fold, the smaller prediction.                                  *)

ClassifierTypes == {"nb", "rf", "svm", None}

\* the one word of the comment of a review with the rating: the reviews in
\* the middle of the scale have a word of their own
Word(rating) == IF 2 * rating = MinRating + MaxRating THEN "fair" ELSE "text"

RatedReviews == {[comment |-> Word(r), rating |-> r] : r \in MinRating..MaxRating}

\* a file in which every fold of two can show the five ratings
FiveStarFile ==
    [k \in 1..(MaxRating + 1) |->
        LET rating == IF k = 1 THEN MinRating ELSE k - 1
        IN [comment |-> Word(rating), rating |-> rating]]

\* the splits cross-validation may get for the file, <<>> when it does not
\* get as far as splitting
Splits(rows, num, neg, pos, n_folds) ==
    LET out == preprocess(rows, num, neg, pos)
    IN IF out.status # "ok" THEN {<<>>}
       ELSE IF split_error(out.target, n_folds) THEN {<<>>}
       ELSE {test_folds \in StratifiedKFold_split(out.target, n_folds) :
                \A a, b \in 1..Len(out.target) :
                    (a < b /\ rows[out.reviews[a]] = rows[out.reviews[b]])
                        => test_folds[a] <= test_folds[b]}

\* what the model fitted in the coming pass may predict for its test
\* examples: classes of its training examples; <<>> when no model is fitted
Predictions(run, type, rows) ==
    LET i == Len(run.folds) + 1
        train_idx == train_indices(run.test_folds, i)
        test == test_indices(run.test_folds, i)
        y_train == Take(run.target, train_idx)
        model_arg == generate_model(type)
    IN IF model_arg = <<>> THEN {<<>>}
       ELSE IF fit_error(model_arg[1], y_train) THEN {<<>>}
       ELSE {preds \in [1..Len(test) -> Range(y_train)] :
                \A a, b \in 1..Len(test) :
                    (a < b /\ rows[run.data[test[a]]] = rows[run.data[test[b]]])
                        => preds[a] <= preds[b]}

\* one more row of the CSV file
ReadRowInOrder(review) ==
    /\ kfold.pc = "none"
    /\ labeled.op = "none"
    /\ Len(df) < MaxExamples
    /\ IF df = <<>> THEN TRUE ELSE df[Len(df)].rating <= review.rating
    /\ df' = Append(df, review)
    /\ UNCHANGED <<init_args, negative_threshold, positive_threshold, model,
                   vectorizer, labeled>>
    /\ UNCHANGED <<classifier_type, kfold>>
    /\ UNCHANGED metricsVars
    /\ UNCHANGED datasetVars

\* evaluate_average_accuracy(reviews_filename, n_folds, num) is called
StartAverage(n_folds, num, test_folds) ==
    /\ kfold.pc = "none"
    /\ labeled.op = "none"
    /\ kfold' = start_average(df, num, negative_threshold, positive_threshold,
                              n_folds, test_folds)
    /\ vectorizer' = vectorizer_fit(vectorizer, df,
                                    preprocess(df, num, negative_threshold,
                                               positive_threshold))
    /\ UNCHANGED classifier_type
    /\ UNCHANGED <<init_args, negative_threshold, positive_threshold, model, df,
                   labeled>>
    /\ UNCHANGED metricsVars
    /\ UNCHANGED datasetVars

\* the next pass of its loop
Fold(preds) ==
    /\ kfold.pc = "loop"
    /\ kfold' = fold_pass(kfold, classifier_type, preds)
    /\ UNCHANGED classifier_type
    /\ UNCHANGED labelerVars
    /\ UNCHANGED metricsVars
    /\ UNCHANGED datasetVars

\* ReviewClassifier(classifier_type)
KFoldInit ==
    /\ classifier_type \in ClassifierTypes
    /\ kfold = NoRun
    /\ init_args = NoArgs
    /\ negative_threshold = default_negative_threshold
    /\ positive_threshold = default_positive_threshold
    /\ model = <<>>
    /\ vectorizer = CountVectorizer
    /\ df \in {<<>>, FiveStarFile}
    /\ labeled = NoLabeled
    /\ label_mode = 2
    /\ actual_ratings = <<>>
    /\ predicted_ratings = <<>>
    /\ result = NoResult
    /\ cnn_result = NoCnnResult
    /\ NoDatasets

KFoldNext ==
    \/ \E review \in RatedReviews : ReadRowInOrder(review)
    \/ \E num \in Modes : Preprocess(num)
    \/ Fit
    \/ /\ kfold.pc = "none"
       /\ \E n_folds \in 1..MaxFolds : \E num \in Modes :
             \E test_folds \in Splits(df, num, negative_threshold,
                                      positive_threshold, n_folds) :
                 StartAverage(n_folds, num, test_folds)
    \/ /\ kfold.pc = "loop"
       /\ \E preds \in Predictions(kfold, classifier_type, df) : Fold(preds)

KFoldSpec == KFoldInit /\ [][KFoldNext]_vars

----------------------------------------------------------------------------
(* Datasets: two ReviewDataset objects are constructed, and their methods  *)
(* are called in any order                                                 *)

Objects == {"A", "B"}

DrugNames == {"actos"}

FileNames == {work_file(d) : d \in DrugNames} \cup {final_file(d) : d \in DrugNames}

CommonDrugs == {"Actos", "Zocor"}

\* a review dictionary as the scraper makes it
scraped_review(comment) ==
    [comment |-> comment, effectiveness |-> <<MaxRating>>, rating |-> <<>>]

\* what one call of scraper.scrape may return for a page whose reviews carry
\* one of the comments
Scraped(comments) == {<<>>} \cup {<<scraped_review(c)>> : c \in comments}

\* the lists scraper.scrape may return for the drugs of a list whose pages
\* carry the comments pages gives them: one review or none for a drug, and
\* nothing for the drugs before start, which are not scraped
Scrapes(common_drugs, start, pages) ==
    {[i \in 1..Len(common_drugs) |->
         IF i \in found THEN <<scraped_review(pages[common_drugs[i]])>>
         ELSE <<>>] : found \in SUBSET ((start + 1)..Len(common_drugs))}

\* lists of common drugs
RECURSIVE DrugLists(_)
DrugLists(n) ==
    IF n = 0 THEN {<<>>}
    ELSE DrugLists(n - 1) \cup
         {Append(l, d) : l \in {m \in DrugLists(n - 1) : Len(m) = n - 1},
                         d \in CommonDrugs}

World ==
    [meta |-> ReviewDataset_meta, datasets |-> datasets, files |-> files,
     now |-> now]

\* a method was called and left the world and the call out describe
Called(out) ==
    /\ ReviewDataset_meta' = out.world.meta
    /\ datasets' = out.world.datasets
    /\ files' = out.world.files
    /\ now' = out.world.now
    /\ last_call' = out.call
    /\ UNCHANGED classifierVars

Collect(o, reviews) ==
    /\ now + 2 <= MaxClock
    /\ Called(collect(World, o, reviews))

CollectAllCommonReviews(o, start, common_drugs, scrapes) ==
    /\ now + 2 <= MaxClock
    /\ Called(collect_all_common_reviews(World, o, start, common_drugs, scrapes))

Save(o) == Called(save(World, o))

FinalSave(o) == Called(final_save(World, o))

Load(o, filename_arg) == Called(load(World, o, filename_arg))

RemoveEmptyComments(o) == Called(remove_empty_comments(World, o))

GenerateRating(o) == Called(generate_rating(World, o))

\* collect_all_common_reviews gets as far as its loop
Scraping(o) ==
    /\ ~meta_of(World, o).locked
    /\ files[work_file(datasets[o].drug_name)] # <<>>

\* ReviewDataset(drug_name) twice, in a directory without pickle files
DatasetInit ==
    /\ ReviewDataset_meta = initial_meta
    /\ datasets \in {[o \in Objects |-> new_dataset(names[o])] :
                        names \in [Objects -> DrugNames]}
    /\ files = [f \in FileNames |-> <<>>]
    /\ now = 0
    /\ last_call = NoCall
    /\ label_mode = 2
    /\ actual_ratings = <<>>
    /\ predicted_ratings = <<>>
    /\ result = NoResult
    /\ cnn_result = NoCnnResult
    /\ init_args = NoArgs
    /\ negative_threshold = default_negative_threshold
    /\ positive_threshold = default_positive_threshold
    /\ model = <<>>
    /\ vectorizer = CountVectorizer
    /\ df = <<>>
    /\ labeled = NoLabeled
    /\ classifier_type = None
    /\ kfold = NoRun

DatasetNext ==
    \/ \E o \in Objects : \E reviews \in Scraped({"text"}) : Collect(o, reviews)
    \/ \E o \in Objects :
          /\ Scraping(o)
          /\ \E common_drugs \in DrugLists(MaxDrugs) :
                \E start \in 0..Len(common_drugs) :
                    \E scrapes \in Scrapes(common_drugs, start,
                                            [d \in CommonDrugs |-> "text"]) :
                        CollectAllCommonReviews(o, start, common_drugs, scrapes)
    \/ \E o \in Objects :
          /\ ~Scraping(o)
          /\ CollectAllCommonReviews(o, 0, <<>>, <<>>)
    \/ \E o \in Objects : Save(o)
    \/ \E o \in Objects : FinalSave(o)
    \/ \E o \in Objects : \E filename_arg \in {<<>>} \cup {<<f>> : f \in FileNames} :
          Load(o, filename_arg)

DatasetSpec == DatasetInit /\ [][DatasetNext]_vars

----------------------------------------------------------------------------
(* Curation: one of the two objects collects the common drugs, cleans its  *)
(* reviews, saves and loads                                                *)

Curated == "A"

\* the reviews of Zocor come without a comment
Pages == [d \in CommonDrugs |-> IF d = "Actos" THEN "text" ELSE ""]

CurationNext ==
    \/ /\ Scraping(Curated)
       /\ \E common_drugs \in DrugLists(MaxDrugs) :
             \E start \in 0..Len(common_drugs) :
                 \E scrapes \in Scrapes(common_drugs, start, Pages) :
                     CollectAllCommonReviews(Curated, start, common_drugs, scrapes)
    \/ /\ ~Scraping(Curated)
       /\ CollectAllCommonReviews(Curated, 0, <<>>, <<>>)
    \/ Save(Curated)
    \/ FinalSave(Curated)
    \/ \E filename_arg \in {<<>>} \cup {<<f>> : f \in FileNames} :
          Load(Curated, filename_arg)
    \/ RemoveEmptyComments(Curated)
    \/ GenerateRating(Curated)

CurationSpec == DatasetInit /\ [][CurationNext]_vars

----------------------------------------------------------------------------
(* Vocabulary of the properties of metrics() *)

\* the confusion matrix metrics built from the evaluated lists
Matrix == result.matrix

\* f[0] + ... + f[n]
RECURSIVE SumTo(_, _)
SumTo(f, n) == IF n < 0 THEN 0 ELSE f[n] + SumTo(f, n - 1)

RowSum(m, c) == SumTo(m[c], Size(m) - 1)
ColumnSum(m, c) == SumTo([r \in DOMAIN m |-> m[r][c]], Size(m) - 1)
Trace(m) == SumTo([i \in DOMAIN m |-> m[i][i]], Size(m) - 1)
Total(m) == SumTo([i \in DOMAIN m |-> RowSum(m, i)], Size(m) - 1)

\* metrics returned values and the matrix m it built is num by num
Evaluated(m) == result.status = "ok" /\ Size(m) = result.num

\* The triple (1, 2, ...) of the returned tuple that holds class c (a row and
\* column of the matrix, from 0): with two classes the first triple is the
\* one of class 1 and the second the one of class 0
TripleOfClass(num, c) == IF num = 2 THEN 2 - c ELSE c + 1

PrecisionOf(c) == result.values[3 * TripleOfClass(result.num, c) - 1]
RecallOf(c) == result.values[3 * TripleOfClass(result.num, c)]
F1Of(c) == result.values[3 * TripleOfClass(result.num, c) + 1]

\* TP_c / (TP_c + FP_c) and TP_c / (TP_c + FN_c) over the whole column and row
ColumnPrecision(m, c) == FDiv(Float(m[c][c]), Float(ColumnSum(m, c)))
RowRecall(m, c) == FDiv(Float(m[c][c]), Float(RowSum(m, c)))

----------------------------------------------------------------------------
(* Properties of metrics(), under Spec *)

\* C1: for num in {2,3,5} and an num-by-num confusion matrix, the accuracy
\* metrics returns is the sum of the diagonal cells over the sum of all cells.
C1_AccuracyIsTraceOverTotal ==
    result.status = "ok" =>
        LET m == Matrix
        IN Evaluated(m) => result.values[1] = Norm(Trace(m), Total(m))

\* a 5-by-5 matrix with half of its examples on the diagonal
C1_Witness ==
    /\ result.status = "ok"
    /\ result.num = 5
    /\ Evaluated(Matrix)
    /\ Trace(Matrix) = 2
    /\ result.values[1] = Norm(1, 2)

\* C2: the precision returned for class c is matrix[c][c] over the sum of
\* column c, whenever that column sum is not zero.
C2_PrecisionIsDiagonalOverColumn ==
    result.status = "ok" =>
        LET m == Matrix
        IN Evaluated(m) =>
              \A c \in DOMAIN m :
                  ColumnSum(m, c) # 0 =>
                      PrecisionOf(c) = Norm(m[c][c], ColumnSum(m, c))

\* a 3-by-3 matrix with a class whose column and row sums differ and whose
\* precision is neither 0 nor 1
C2_Witness ==
    /\ result.status = "ok"
    /\ result.num = 3
    /\ Evaluated(Matrix)
    /\ \E c \in DOMAIN Matrix :
          /\ 0 < Matrix[c][c]
          /\ Matrix[c][c] < ColumnSum(Matrix, c)
          /\ ColumnSum(Matrix, c) # RowSum(Matrix, c)

\* C3: the recall returned for class c is matrix[c][c] over the sum of row c,
\* whenever that row sum is not zero.
C3_RecallIsDiagonalOverRow ==
    result.status = "ok" =>
        LET m == Matrix
        IN Evaluated(m) =>
              \A c \in DOMAIN m :
                  RowSum(m, c) # 0 =>
                      RecallOf(c) = Norm(m[c][c], RowSum(m, c))

\* a 2-by-2 matrix with a class whose row and column sums differ and whose
\* recall is neither 0 nor 1
C3_Witness ==
    /\ result.status = "ok"
    /\ result.num = 2
    /\ Evaluated(Matrix)
    /\ \E c \in DOMAIN Matrix :
          /\ 0 < Matrix[c][c]
          /\ Matrix[c][c] < RowSum(Matrix, c)
          /\ ColumnSum(Matrix, c) # RowSum(Matrix, c)

\* C4: for every class, f1 is 2 * precision * recall / (precision + recall)
\* when precision + recall > 0, and f1 is 0 (no error, no undefined value)
\* when precision and recall are both 0.
C4_F1HarmonicMeanOrZero ==
    Evaluated(Matrix) =>
        \A c \in DOMAIN Matrix :
            LET p == PrecisionOf(c)
                r == RecallOf(c)
            IN /\ (IsFinite(p) /\ IsFinite(r) /\ FAdd(p, r) # Zero) =>
                      F1Of(c) = FDiv(FMul(Two, FMul(p, r)), FAdd(p, r))
               /\ (p = Zero /\ r = Zero) => F1Of(c) = Zero

\* C5: when a class has no predicted members (TP + FP = 0) or no actual
\* members (TP + FN = 0), the computation (metrics, and the CNN's epoch and
\* evaluation precision and recall) gives an explicit undefined value for the
\* affected metric, the same way for every class: it neither raises a
\* division fault nor produces a number.
C5_UndefinedMetricIsExplicit ==
    /\ Evaluated(Matrix) =>
          \A c \in DOMAIN Matrix :
              /\ ColumnSum(Matrix, c) = 0 => IsNaN(PrecisionOf(c))
              /\ RowSum(Matrix, c) = 0 => IsNaN(RecallOf(c))
    /\ (cnn_result.op \in {"evaluate", "train"} /\ actual_ratings # <<>>) =>
          LET total_tp == cnn_result.totals[1]
              total_fp == cnn_result.totals[2]
              total_fn == cnn_result.totals[4]
          IN /\ total_tp + total_fp = 0 =>
                    cnn_result.status = "ok" /\ IsNaN(cnn_result.values[2])
             /\ total_tp + total_fn = 0 =>
                    cnn_result.status = "ok" /\ IsNaN(cnn_result.values[3])

\* C6 as claimed: for every num the k-th triple after the accuracy is computed
\* from row and column k-1 of the matrix (ascending class order).
C6_TriplesAscending ==
    Evaluated(Matrix) =>
        \A k \in 1..result.num :
            /\ result.values[3 * k - 1] = ColumnPrecision(Matrix, k - 1)
            /\ result.values[3 * k] = RowRecall(Matrix, k - 1)

\* the row and column the k-th triple is computed from
ClassOfTriple(num, k) == IF num = 2 THEN 2 - k ELSE k - 1

\* C6 as amended: for num 3 and 5 the k-th triple is computed from row and
\* column k-1; for num 2 the first triple is computed from row and column 1
\* (the larger label) and the second from row and column 0.
C6_TripleOrder ==
    result.status = "ok" =>
        LET m == Matrix
        IN Evaluated(m) =>
              \A k \in 1..result.num :
                  LET c == ClassOfTriple(result.num, k)
                  IN /\ result.values[3 * k - 1] = ColumnPrecision(m, c)
                     /\ result.values[3 * k] = RowRecall(m, c)

\* two classes whose precisions differ, so that the order shows
C6_Witness ==
    /\ result.status = "ok"
    /\ result.num = 2
    /\ Evaluated(Matrix)
    /\ IsFinite(result.values[2])
    /\ IsFinite(result.values[5])
    /\ result.values[2] # result.values[5]
    /\ result.values[2] = ColumnPrecision(Matrix, 1)

\* C7: metrics reports an error whenever the matrix built from its inputs is
\* not num by num; it never returns values computed from such a matrix.
C7_WrongSizeIsAnError ==
    result.status = "ok" => Size(Matrix) = result.num

----------------------------------------------------------------------------
(* Properties of the labeler, under LabelerSpec *)

\* the rows of df that carry a text comment
TextRows == {i \in 1..Len(df) : df[i].comment = "text"}

StrictlyIncreasing(s) == \A i, j \in 1..Len(s) : i < j => s[i] < s[j]

\* the 2-class labels
Label2(rating) ==
    IF rating <= negative_threshold THEN <<0>>
    ELSE IF rating >= positive_threshold THEN <<1>>
    ELSE Drop

\* the 3-class labels
Label3(rating) ==
    IF rating <= negative_threshold THEN <<0>>
    ELSE IF rating >= positive_threshold THEN <<2>>
    ELSE <<1>>

Label(num, rating) == IF num = 2 THEN Label2(rating) ELSE Label3(rating)

\* the last call returned: its targets and kept rows are those of the rows
\* of df that carry a text comment and that Label keeps, in the file's
\* order, each with the label of its own rating
LabeledBy(num) ==
    /\ Len(labeled.target) = Len(labeled.reviews)
    /\ StrictlyIncreasing(labeled.reviews)
    /\ Range(labeled.reviews) = {i \in TextRows : Label(num, df[i].rating) # Drop}
    /\ \A k \in 1..Len(labeled.reviews) :
          <<labeled.target[k]>> = Label(num, df[labeled.reviews[k]].rating)

\* C8: in 2-class mode, with negative_threshold < positive_threshold, both
\* preprocess and classify label a record (with a text comment) 0 when its
\* rating <= negative_threshold, 1 when its rating >= positive_threshold, and
\* otherwise drop it from both the targets and the feature rows.
C8_TwoClassLabels ==
    (/\ labeled.status = "ok"
     /\ labeled.num = 2
     /\ negative_threshold < positive_threshold) => LabeledBy(2)

\* classify, thresholds other than the defaults: a record of the neutral
\* band is dropped and one at the positive threshold is labeled 1
C8_Witness ==
    /\ labeled.op = "classify"
    /\ labeled.status = "ok"
    /\ labeled.num = 2
    /\ negative_threshold = 1
    /\ positive_threshold = 3
    /\ Len(df) = 2
    /\ df[1] = [comment |-> "text", rating |-> 2]
    /\ df[2] = [comment |-> "text", rating |-> 3]
    /\ labeled.target = <<1>>
    /\ labeled.reviews = <<2>>

\* C9: in 3-class mode, with negative_threshold < positive_threshold, both
\* preprocess and classify label a record 0 when its rating <=
\* negative_threshold, 2 when its rating >= positive_threshold and 1
\* otherwise, and no record with a text comment is dropped.
C9_ThreeClassLabels ==
    (/\ labeled.status = "ok"
     /\ labeled.num = 3
     /\ negative_threshold < positive_threshold) =>
        /\ LabeledBy(3)
        /\ Range(labeled.reviews) = TextRows

\* preprocess: a record at the negative threshold and one of the neutral band
C9_Witness ==
    /\ labeled.op = "preprocess"
    /\ labeled.status = "ok"
    /\ labeled.num = 3
    /\ negative_threshold < positive_threshold
    /\ Len(df) = 2
    /\ df[1] = [comment |-> "text", rating |-> negative_threshold]
    /\ df[2] = [comment |-> "text", rating |-> negative_threshold + 1]
    /\ labeled.target = <<0, 1>>

\* C10: in 5-class mode the label of a record is its rating: every rating in
\* 1..5 gets that label, whatever the thresholds, and a rating outside 1..5
\* is never given one of the labels 1..5.
C10_FiveClassIdentity ==
    (labeled.status = "ok" /\ labeled.num = 5) =>
        /\ Len(labeled.target) = Len(labeled.reviews)
        /\ \A k \in 1..Len(labeled.reviews) :
              LET rating == df[labeled.reviews[k]].rating
              IN IF rating \in MinRating..MaxRating
                 THEN labeled.target[k] = rating
                 ELSE labeled.target[k] \notin MinRating..MaxRating

\* C11: a classifier whose negative_threshold is not strictly less than its
\* positive_threshold is reported as a configuration error: neither
\* preprocess nor classify ever returns labels made under such thresholds.
C11_BadThresholdsRejected ==
    labeled.status = "ok" => negative_threshold < positive_threshold

\* the threshold the labeler is to use for an argument of __init__
ThresholdGiven(arg, default) == IF arg = <<>> THEN default ELSE arg[1]

\* C12: the thresholds used for labeling are 2.0 and 4.0 when none are given
\* at construction, and every number given at construction (0 included) is
\* the threshold the labeler uses.
C12_ThresholdsAsGiven ==
    labeled.status = "ok" =>
        /\ negative_threshold = ThresholdGiven(init_args.negative_threshold, 2)
        /\ positive_threshold = ThresholdGiven(init_args.positive_threshold, 4)

\* C13: when the CSV has records without a text comment and preprocess
\* returns, those records are in neither the feature rows nor the targets
\* and the returned info tells how many of them were skipped.
C13_SkippedRecordsCounted ==
    (/\ labeled.op = "preprocess"
     /\ labeled.status = "ok"
     /\ TextRows # 1..Len(df)) =>
        /\ Range(labeled.reviews) \subseteq TextRows
        /\ Len(labeled.target) = Len(labeled.reviews)
        /\ "skipped" \in DOMAIN labeled.info
        /\ labeled.info["skipped"] = Len(df) - Cardinality(TextRows)

\* C17: preprocess returns as many feature rows as targets, the k-th of each
\* made from the same record of the file (records in the file's order, the
\* target being the label of that record's rating), and in 2-class mode
\* every target is 0 or 1.
C17_RowsAndTargetsPaired ==
    (labeled.op = "preprocess" /\ labeled.status = "ok") =>
        /\ Len(labeled.target) = Len(labeled.reviews)
        /\ StrictlyIncreasing(labeled.reviews)
        /\ Range(labeled.reviews) \subseteq TextRows
        /\ \A k \in 1..Len(labeled.reviews) :
              LET rating == df[labeled.reviews[k]].rating
              IN /\ labeled.num \in {2, 3} =>
                       <<labeled.target[k]>> = Label(labeled.num, rating)
                 /\ (labeled.num = 5 /\ rating \in MinRating..MaxRating) =>
                       labeled.target[k] = rating
                 /\ labeled.num = 2 => labeled.target[k] \in {0, 1}

\* 2-class mode: a neutral record between a negative and a positive one is
\* left out of both lists
C17_Witness ==
    /\ labeled.op = "preprocess"
    /\ labeled.status = "ok"
    /\ labeled.num = 2
    /\ Len(df) = 2
    /\ df[1] = [comment |-> "text", rating |-> 3]
    /\ df[2] = [comment |-> "text", rating |-> 5]
    /\ negative_threshold = 2
    /\ positive_threshold = 4
    /\ labeled.target = <<1>>
    /\ labeled.reviews = <<2>>

----------------------------------------------------------------------------
(* Properties of evaluate_average_accuracy, under KFoldSpec *)

\* the folds the call has gone through so far
Folds == 1..Len(kfold.folds)

\* the call returned its dictionary
Returned == kfold.pc = "returned"

\* the labeled examples: positions of data and target
Examples == 1..Len(kfold.target)

\* the examples test_folds gives fold f as its test set
TestSet(f) == {x \in Examples : kfold.test_folds[x] = f}

\* C14: every fold's predictions come from the classifier constructed in that
\* fold's pass of the loop, which was trained on that fold's training
\* indices and nothing else; self.model predicts for no fold, and no step of
\* a call of evaluate_average_accuracy changes it.
C14_FoldModelsOnly ==
    [][/\ (\A f \in Folds :
              /\ kfold.folds[f].predicted_by = "model"
              /\ Range(kfold.folds[f].model.fitted_on) =
                     Examples \ TestSet(f))'
       /\ (kfold.pc = "loop" \/ kfold'.pc # kfold.pc) => model' = model
      ]_vars

\* a random forest went through both folds while the instance held a model
\* trained before
C14_Witness ==
    /\ Returned
    /\ classifier_type = "rf"
    /\ model # <<>>
    /\ kfold.n_folds = 2
    /\ Len(kfold.folds) = 2

\* C15: in a run that went through its k folds every labeled example is in
\* the test set of exactly one fold and in the training set of the k-1
\* others, and in no fold is an example in both sets.
C15_FoldsPartitionExamples ==
    /\ \A f \in Folds :
          Range(kfold.folds[f].train) \cap Range(kfold.folds[f].test) = {}
    /\ Returned =>
          /\ Len(kfold.folds) = kfold.n_folds
          /\ \A x \in Examples :
                /\ Cardinality({f \in Folds : x \in Range(kfold.folds[f].test)}) = 1
                /\ Cardinality({f \in Folds : x \in Range(kfold.folds[f].train)})
                      = kfold.n_folds - 1

\* three folds over a file from which preprocess dropped a record
C15_Witness ==
    /\ Returned
    /\ kfold.n_folds = 3
    /\ Len(kfold.target) < Len(df)
    /\ Len(kfold.target) > 3

\* The metrics of the returned dictionary: the key of the per-fold sequence,
\* the key of the average, and the place of the metric in the tuple that
\* evaluate_accuracy returns for a fold
MetricKeys_2 ==
    {<<"accuracies", "average_accuracy", 1>>,
     <<"positive_precisions", "average_positive_precision", 2>>,
     <<"positive_recalls", "average_positive_recall", 3>>,
     <<"positive_f1_scores", "average_positive_f1_score", 4>>,
     <<"negative_precisions", "average_negative_precision", 5>>,
     <<"negative_recalls", "average_negative_recall", 6>>,
     <<"negative_f1_scores", "average_negative_f1_score", 7>>}

MetricKeys_3 ==
    {<<"accuracies", "average_accuracy", 1>>,
     <<"positive_precisions", "average_positive_precision", 2>>,
     <<"positive_recalls", "average_positive_recall", 3>>,
     <<"positive_f1_scores", "average_positive_f1_score", 4>>,
     <<"negative_precisions", "average_negative_precision", 5>>,
     <<"negative_recalls", "average_negative_recall", 6>>,
     <<"negative_f1_scores", "average_negative_f1_score", 7>>,
     <<"neutral_precisions", "average_neutral_precision", 8>>,
     <<"neutral_recalls", "average_neutral_recall", 9>>,
     <<"neutral_f1_scores", "average_neutral_f1_score", 10>>}

MetricKeys_5 ==
    {<<"accuracies", "average_accuracy", 1>>,
     <<"onestar_precisions", "average_onestar_precision", 2>>,
     <<"onestar_recalls", "average_onestar_recall", 3>>,
     <<"onestar_f1_scores", "average_onestar_f1_score", 4>>,
     <<"twostar_precisions", "average_twostar_precision", 5>>,
     <<"twostar_recalls", "average_twostar_recall", 6>>,
     <<"twostar_f1_scores", "average_twostar_f1_score", 7>>,
     <<"threestar_precisions", "average_threestar_precision", 8>>,
     <<"threestar_recalls", "average_threestar_recall", 9>>,
     <<"threestar_f1_scores", "average_threestar_f1_score", 10>>,
     <<"fourstar_precisions", "average_fourstar_precision", 11>>,
     <<"fourstar_recalls", "average_fourstar_recall", 12>>,
     <<"fourstar_f1_scores", "average_fourstar_f1_score", 13>>,
     <<"fivestar_precisions", "average_fivestar_precision", 14>>,
     <<"fivestar_recalls", "average_fivestar_recall", 15>>,
     <<"fivestar_f1_scores", "average_fivestar_f1_score", 16>>}

MetricKeys(num) ==
    CASE num = 2 -> MetricKeys_2
      [] num = 3 -> MetricKeys_3
      [] num = 5 -> MetricKeys_5

\* what metrics gives for the test examples of fold f and their predictions
FoldValues(f) ==
    metrics(Take(kfold.target, kfold.folds[f].test), kfold.folds[f].preds,
            kfold.num).values

\* values[1] + ... + values[Len(values)], from the last one
RECURSIVE SumFrom(_, _)
SumFrom(values, k) ==
    IF k > Len(values) THEN Zero ELSE FAdd(values[k], SumFrom(values, k + 1))

ArithmeticMean(values) == FDiv(SumFrom(values, 1), Float(Len(values)))

\* the per-fold sequence of every metric has one value per fold, the f-th
\* one being that of fold f
SequencesInFoldOrder ==
    /\ \A key \in MetricKeys(kfold.num) :
          Len(kfold.metrics_[key[1]]) = kfold.n_folds
    /\ \A f \in Folds : \A values \in {FoldValues(f)} :
          \A key \in MetricKeys(kfold.num) :
              kfold.metrics_[key[1]][f] = values[key[3]]

FLess(a, b) == a.n * b.d < b.n * a.d

\* predictions of fold f that are right, and that are wrong
Hits(f) ==
    {k \in 1..Len(kfold.folds[f].test) :
        kfold.folds[f].preds[k] = kfold.target[kfold.folds[f].test[k]]}
Misses(f) == (1..Len(kfold.folds[f].test)) \ Hits(f)

\* C18: the average accuracy that evaluate_average_accuracy reports lies
\* between 0 and 100 when every fold's accuracy is defined, and strictly
\* between them when some fold has a right and a wrong prediction.
C18_AverageAccuracyIsPercentage ==
    (/\ Returned
     /\ \A f \in Folds : IsFinite(kfold.metrics_.accuracies[f])) =>
        LET average_accuracy == kfold.metrics_.average_accuracy
        IN /\ IsFinite(average_accuracy)
           /\ FLeq(Zero, average_accuracy)
           /\ FLeq(average_accuracy, Float(100))
           /\ (\E f \in Folds : Hits(f) # {} /\ Misses(f) # {}) =>
                 /\ FLess(Zero, average_accuracy)
                 /\ FLess(average_accuracy, Float(100))

\* one fold all right, the other half right
C18_Witness ==
    /\ Returned
    /\ kfold.n_folds = 2
    /\ Misses(1) = {}
    /\ Hits(2) # {}
    /\ Misses(2) # {}
    /\ kfold.metrics_.average_accuracy = Float(75)

----------------------------------------------------------------------------
(* Properties of ReviewDataset, under DatasetSpec *)

\* the methods that test the lock
LockTesting == {"collect", "collect_all_common_reviews", "save", "final_save"}

\* the snapshot in file f
SnapshotMeta(f) == pickle_load(files[f][1], "meta")
SnapshotReviews(f) == pickle_load(files[f][1], "reviews")

\* the step is a call of method op on object o
CallOf(o, ops) == last_call'.obj = o /\ last_call'.op \in ops

\* C19: called on a locked dataset, each of collect,
\* collect_all_common_reviews, save and final_save returns without a scrape,
\* writes no file and leaves reviews and meta as they were; final_save on an
\* unlocked dataset leaves it locked and the snapshot it wrote says locked,
\* so that a second final_save writes nothing.
C19_LockedDatasetIsFrozen ==
    [][\A o \in Objects :
          /\ (meta_of(World, o).locked /\ CallOf(o, LockTesting)) =>
                /\ last_call'.status = "locked"
                /\ last_call'.scraped = 0
                /\ last_call'.written = {}
                /\ files' = files
                /\ datasets'[o].reviews = datasets[o].reviews
                /\ meta_of(World', o) = meta_of(World, o)
          /\ (~meta_of(World, o).locked /\ CallOf(o, {"final_save"})) =>
                /\ last_call'.status = "ok"
                /\ meta_of(World', o).locked
                /\ \A f \in last_call'.written : SnapshotMeta(f)'.locked
      ]_vars

\* a second final_save was refused, the snapshot of the first being there
C19_Witness ==
    /\ last_call.op = "final_save"
    /\ last_call.status = "locked"
    /\ files[final_file(datasets[last_call.obj].drug_name)] # <<>>
    /\ datasets[last_call.obj].reviews # <<>>

\* C20: a snapshot written by save or final_save holds the reviews and the
\* meta the object has when the call returns, unlocked for save and locked
\* for final_save; load sets reviews and meta to what the snapshot holds, so
\* loading a final_save snapshot gives a locked dataset and loading a save
\* snapshot an unlocked one.
C20_SnapshotRoundTrip ==
    [][\A o \in Objects :
          /\ (CallOf(o, {"save", "final_save"}) /\ last_call'.status = "ok") =>
                \A f \in last_call'.written :
                    /\ SnapshotReviews(f)' = datasets'[o].reviews
                    /\ SnapshotMeta(f)' = meta_of(World', o)
                    /\ SnapshotMeta(f)'.locked = (last_call'.op = "final_save")
          /\ (CallOf(o, {"load"}) /\ last_call'.status = "ok") =>
                \A f \in last_call'.read :
                    /\ datasets'[o].reviews = SnapshotReviews(f)
                    /\ meta_of(World', o) = SnapshotMeta(f)
                    /\ f = final_file(datasets[o].drug_name) =>
                          meta_of(World', o).locked
                    /\ f = work_file(datasets[o].drug_name) =>
                          ~meta_of(World', o).locked
      ]_vars

\* an object that collected nothing loaded the final snapshot of another
\* one, and is locked with its reviews and time stamps
C20_Witness ==
    /\ last_call.op = "load"
    /\ last_call.status = "ok"
    /\ last_call.read = {final_file(datasets[last_call.obj].drug_name)}
    /\ datasets[last_call.obj].meta # <<>>
    /\ meta_of(World, last_call.obj).locked
    /\ meta_of(World, last_call.obj).endTimestamp # <<>>
    /\ datasets[last_call.obj].reviews = <<scraped_review("text")>>
    /\ ReviewDataset_meta.startTimestamp # <<>>

----------------------------------------------------------------------------
(* Properties of the CNN classifier's counting, under Spec *)

\* how many of the evaluated examples have prediction p and rating r
RECURSIVE PairCount(_, _, _)
PairCount(p, r, k) ==
    IF k = 0 THEN 0
    ELSE PairCount(p, r, k - 1) +
         (IF predicted_ratings[k] = p /\ actual_ratings[k] = r THEN 1 ELSE 0)

----------------------------------------------------------------------------
(* Properties of the counts of preprocess, under LabelerSpec *)

\* C29: the counts preprocess returns add up to the number of records that
\* have a text comment, and the number of targets is positive + negative for
\* num = 2 and positive + negative + neutral for num = 3 and num = 5.
C29_CountsAddUp ==
    (labeled.op = "preprocess" /\ labeled.status = "ok") =>
        LET info == labeled.info
        IN /\ info.positive + info.negative + info.neutral =
                 Cardinality(TextRows)
           /\ Len(labeled.target) =
                 IF labeled.num = 2 THEN info.positive + info.negative
                 ELSE info.positive + info.negative + info.neutral

\* two classes: one record of the neutral band, counted and given no target
C29_Witness ==
    /\ labeled.op = "preprocess"
    /\ labeled.status = "ok"
    /\ labeled.num = 2
    /\ labeled.info = [positive |-> 1, negative |-> 0, neutral |-> 1]
    /\ Len(labeled.target) = 1
    /\ Len(df) = 2

----------------------------------------------------------------------------
(* Properties of the names in the report, under KFoldSpec *)

\* the labeler's classes: negative is 0, positive the largest label, and
\* with three classes neutral is 1
NegativeClass == 0
NeutralClass == 1
PositiveClass(num) == num - 1

\* the confusion matrix of fold f
FoldMatrix(f) ==
    confusion_matrix(Take(kfold.target, kfold.folds[f].test),
                     kfold.folds[f].preds)

\* under the keys of sentiment name, fold f has the precision and the recall
\* of class c
NamedFor(name, c, f) ==
    /\ kfold.metrics_[name \o "_precisions"][f] = ColumnPrecision(FoldMatrix(f), c)
    /\ kfold.metrics_[name \o "_recalls"][f] = RowRecall(FoldMatrix(f), c)

\* C21: in the report of a 2-class or 3-class run the 'positive_*' entries
\* are the metrics of the class labeled positive, the 'negative_*' entries
\* those of class 0 and, with three classes, the 'neutral_*' entries those
\* of class 1.
C21_NamesMatchClasses ==
    (Returned /\ kfold.num \in {2, 3}) =>
        \A f \in Folds :
            /\ NamedFor("positive", PositiveClass(kfold.num), f)
            /\ NamedFor("negative", NegativeClass, f)
            /\ kfold.num = 3 => NamedFor("neutral", NeutralClass, f)

----------------------------------------------------------------------------
(* Properties of classify with evaluate=True, under LabelerSpec *)

\* classify ran with evaluate=True on a trained model and kept a comment
ClassifiedWithEvaluate ==
    /\ labeled.op = "classify"
    /\ labeled.evaluate
    /\ model # <<>>
    /\ labeled.status # "AxisError"

\* C22: for num in {2, 3, 5}, classify with evaluate=True on a trained model
\* completes without error and writes, after the lines of the comments, the
\* metrics of that num-class mode: accuracy and num triples.
C22_EvaluateCompletes ==
    ClassifiedWithEvaluate =>
        /\ labeled.status = "ok"
        /\ labeled.lines = Len(labeled.target)
        /\ Len(labeled.evaluation) = 1 + 3 * labeled.num

----------------------------------------------------------------------------
(* Properties of CNNReviewClassifier.train and evaluate_k_fold, under Spec *)

\* the batch the loader puts example x in
BatchOf(x, batch_size) == ((x - 1) \div batch_size) + 1

\* how many examples outside the batches of passed have prediction p and
\* rating r
KeptCount(p, r, passed, batch_size) ==
    Cardinality({x \in 1..Len(actual_ratings) :
                    /\ predicted_ratings[x] = p
                    /\ actual_ratings[x] = r
                    /\ BatchOf(x, batch_size) \notin passed})

\* train returned its network
Trained == cnn_result.op = "train_epochs" /\ cnn_result.status = "ok"

\* the totals of every epoch count the examples of the batches that were
\* not passed over, and nothing else
SkippedBatchesUncounted ==
    \A k \in 1..Len(cnn_result.epochs) :
        LET passed == cnn_result.skipped[k]
            size == cnn_result.batch_size
        IN cnn_result.epochs[k].totals =
              <<KeptCount(1, 1, passed, size), KeptCount(1, 0, passed, size),
                KeptCount(0, 0, passed, size), KeptCount(0, 1, passed, size)>>

\* C28: a train call that returns ran exactly n_epochs epochs, the number
\* announced at the start of the k-th epoch is k whatever batches were
\* passed over for being short, and those batches add nothing to the
\* epoch's tp/fp/tn/fn totals.
C28_EpochsCounted ==
    Trained =>
        /\ Len(cnn_result.epochs) = cnn_result.n_epochs
        /\ Len(cnn_result.announced) = cnn_result.n_epochs
        /\ \A k \in 1..cnn_result.n_epochs : cnn_result.announced[k] = k
        /\ SkippedBatchesUncounted

\* sum of the j-th value of the folds
RECURSIVE FoldSum(_, _, _)
FoldSum(folds, j, f) ==
    IF f = 0 THEN Zero ELSE FAdd(FoldSum(folds, j, f - 1), folds[f][j])

\* C23: the average accuracy, precision and recall of evaluate_k_fold are
\* the sums of the values of the folds divided by num_folds, the number of
\* folds evaluated.
C23_AverageOverFolds ==
    (cnn_result.op = "evaluate_k_fold" /\ cnn_result.status = "ok") =>
        /\ Len(cnn_result.folds) = cnn_result.num_folds
        /\ \A j \in 1..3 :
              cnn_result.values[j] =
                  FDiv(FoldSum(cnn_result.folds, j, cnn_result.num_folds),
                       Float(cnn_result.num_folds))

----------------------------------------------------------------------------
(* Properties of the lock of ReviewDataset, under DatasetSpec *)

\* C25: the lock belongs to one object: final_save on one ReviewDataset
\* never locks another one, which collect and save go on serving.
C25_LockIsPerObject ==
    [][\A a, b \in Objects :
          (a # b /\ CallOf(a, {"final_save"}) /\ ~meta_of(World, b).locked)
              => ~meta_of(World', b).locked
      ]_vars

----------------------------------------------------------------------------
(* Properties of a curated ReviewDataset, under CurationSpec *)

\* the methods other than load that work on the reviews of a dataset
ReviewChanging ==
    LockTesting \cup {"remove_empty_comments", "generate_rating"}

\* C26: while a dataset is locked, a call of collect,
\* collect_all_common_reviews, save, final_save, remove_empty_comments or
\* generate_rating leaves its reviews as they were and leaves it locked.
C26_LockedReviewsUnchanged ==
    [][(meta_of(World, Curated).locked /\ CallOf(Curated, ReviewChanging)) =>
          /\ datasets'[Curated].reviews = datasets[Curated].reviews
          /\ meta_of(World', Curated).locked
      ]_vars

\* the lists of scrapes one after the other
RECURSIVE Concat(_)
Concat(scrapes) ==
    IF scrapes = <<>> THEN <<>> ELSE Head(scrapes) \o Concat(Tail(scrapes))

\* the world of a run from start = 0 at the moment the drug at position i
\* has been saved
AfterDrug(w, o, common_drugs, scrapes, i) ==
    scrape_loop(stamp(load(w, o, <<>>).world, o, "startTimestamp"), o,
                SubSeq(common_drugs, 1, i), scrapes, 0)

\* after each drug the snapshot holds the reviews the object holds
SnapshotsFollow(w, o, common_drugs, scrapes) ==
    \A i \in 1..Len(common_drugs) :
        LET saved == AfterDrug(w, o, common_drugs, scrapes, i)
        IN pickle_load(saved.files[work_file(saved.datasets[o].drug_name)][1],
                       "reviews") = saved.datasets[o].reviews

\* interrupted after any drug but the last and called again with start set
\* to the position after it, the run ends with the reviews of the run that
\* was not interrupted
ResumedAlike(w, o, common_drugs, scrapes) ==
    \A i \in 1..(Len(common_drugs) - 1) :
        collect_all_common_reviews(AfterDrug(w, o, common_drugs, scrapes, i),
                                   o, i, common_drugs, scrapes
                                  ).world.datasets[o].reviews
            = collect_all_common_reviews(w, o, 0, common_drugs, scrapes
                                        ).world.datasets[o].reviews

\* the step is a run of collect_all_common_reviews from start = 0 over the
\* drugs and their scrapes
RunOf(o, common_drugs, scrapes) ==
    LET out == collect_all_common_reviews(World, o, 0, common_drugs, scrapes)
    IN /\ out.call.status = "ok"
       /\ last_call' = out.call
       /\ World' = out.world

\* C27: for every list of common drugs, a run of collect_all_common_reviews
\* from start = 0 has, after each drug, a snapshot equal to the reviews in
\* memory; interrupted after a drug and resumed after it, it ends with the
\* reviews of the uninterrupted run; and these are the scraped reviews of
\* the drugs in list order, each once, the loaded reviews being replaced at
\* the first drug.
C27_Resumable ==
    [][\A common_drugs \in DrugLists(MaxDrugs) \ {<<>>} :
          \A scrapes \in Scrapes(common_drugs, 0, Pages) :
              RunOf(Curated, common_drugs, scrapes) =>
                  /\ SnapshotsFollow(World, Curated, common_drugs, scrapes)
                  /\ ResumedAlike(World, Curated, common_drugs, scrapes)
                  /\ datasets'[Curated].reviews = Concat(scrapes)
      ]_vars

----------------------------------------------------------------------------
(* Properties of the vectorizer of ReviewClassifier, under KFoldSpec *)

\* C24: whatever calls of preprocess, fit and evaluate_average_accuracy were
\* made, the vectorizer the instance holds, the one classify and save_model
\* use, has the features its trained model was fitted to: it is the one
\* fitted on the data the model was trained on.
C24_VectorizerPairedWithModel ==
    model # <<>> => vectorizer = <<model[1].fitted_on>>

====
